---- MODULE Spec2Model ----
(***************************************************************************)
(* A model of the Sentence Paths store (Dexie tables of src/src/data/db.ts) *)
(* and of the handlers of src/src/App.tsx that read and write it: import,   *)
(* batch deletion, clear-path, linear advance, SRS grading, card selection, *)
(* mode switching, backup export and restore.                               *)
(*                                                                         *)
(* Conventions.  A nullable value of the code (row | null) is a set with at *)
(* most one element.  A table is the set of its rows; put is an upsert on   *)
(* the table's primary key.  Ids are numbers: the ids 1..NumExtIds are the  *)
(* ids a file's id column can name, larger ones are makeId() results.      *)
(* Ease is kept in hundredths (2.2 is 220), the clock in days.  A text is   *)
(* represented by the token count countTokens gives it (field tt).         *)
(***************************************************************************)
EXTENDS Integers, Sequences, FiniteSets, TLC

\* ------------------------------------------------------------------ bounds
NumExtIds == 1
MaxGenIds == 3
MaxRows == 1
MaxImports == 3
MaxDecks == 2
MaxNow == 3
MaxLifetimeReps == 1
MaxReviewReps == 4
SampleLen == 2
MaxCardReps == 4
MaxIntervalDays == 40
MaxLinDeck == 3
MaxRun == 4
MaxFaultReps == 2
MaxHeaders == 2
MaxLanguages == 2
BatchSize == 1
MaxTxRows == 2
MaxTxImports == 2
MaxLegacy == 3
MaxLegacyIndex == 2
MaxRestoreRows == 2
MaxFileRows == 2

\* ------------------------------------------------- values of the program
NoSel == 0
Absent == 0 - 2
LegacyImportId == 0
TokInf == 999999
TokNull == -1
EaseInit == 220
EaseMin == 130
EaseMax == 280

ExtIds == 1..NumExtIds
TokVals == {2}
LinTokVals == {2, 3, 5}
Ratings == {"again", "hard", "good", "easy"}
Modes == {"linear", "srs"}
ImportModes == {"append", "replace"}

VARIABLES
    datasets,      \* db.datasets: set of dataset ids
    decks,         \* db.decks: set of [id, datasetId]
    imports,       \* db.imports
    sentences,     \* db.sentences (primary key id)
    pathProgress,  \* db.pathProgress (key datasetId+deckId)
    srs,           \* db.srs (key datasetId+deckId+sentenceId)
    progress,      \* db.progress: the legacy, language-wide progress (key datasetId)
    datasetId,     \* React state: selected language ("" is NoSel)
    deckId,        \* React state: selected path
    pathProg,      \* React state: PathProgressRow | null
    row,           \* React state: SentenceRow | null
    srsRow,        \* React state: SRSRow | null
    now,           \* Date.now(), in days
    gen,           \* makeId: the next fresh id of each prefix (s, imp, deck, ds)
    card,          \* the card under scheduleSRS (specification SpecSRS)
    auto,          \* React state and ref of the auto-run effect (specification SpecAuto)
    txn,           \* work in flight: the transaction that is open or was aborted, the
                   \* calls of bumpLinear issued and not yet settled
    hist           \* history: what the last step did

storeVars == <<datasets, decks, imports, sentences, pathProgress, srs, progress>>
uiVars == <<datasetId, deckId, pathProg, row, srsRow>>
vars == <<datasets, decks, imports, sentences, pathProgress, srs, progress, datasetId, deckId,
          pathProg, row, srsRow, now, gen, card, auto, txn, hist>>

\* ----------------------------------------------------------------- helpers
Max2(a, b) == IF a >= b THEN a ELSE b
Min2(a, b) == IF a <= b THEN a ELSE b

clamp(n, a, b) == Max2(a, Min2(b, n))

\* Math.round of n / d for n >= 0, d > 0.
RoundDiv(n, d) == (2 * n + d) \div (2 * d)

\* The element of a non-empty set of rows that an index scan meets first / last.
ById(a, b) == a.id < b.id
ByOrderId(a, b) == a.order < b.order \/ (a.order = b.order /\ a.id < b.id)
ByDueId(a, b) == a.dueAt < b.dueAt \/ (a.dueAt = b.dueAt /\ a.sentenceId < b.sentenceId)
FirstById(S) == CHOOSE x \in S : \A y \in S \ {x} : ById(x, y)
FirstByOrder(S) == CHOOSE x \in S : \A y \in S \ {x} : ByOrderId(x, y)
LastByOrder(S) == CHOOSE x \in S : \A y \in S \ {x} : ByOrderId(y, x)
FirstByDue(S) == CHOOSE x \in S : \A y \in S \ {x} : ByDueId(x, y)

\* The store as one value, so that a handler is a composition of its calls.
DB == [datasets |-> datasets, decks |-> decks, imports |-> imports,
       sentences |-> sentences, pathProgress |-> pathProgress, srs |-> srs,
       progress |-> progress]
UI == [datasetId |-> datasetId, deckId |-> deckId, pathProg |-> pathProg,
       row |-> row, srsRow |-> srsRow]

SetDB(d) ==
    /\ datasets' = d.datasets
    /\ decks' = d.decks
    /\ imports' = d.imports
    /\ sentences' = d.sentences
    /\ pathProgress' = d.pathProgress
    /\ srs' = d.srs
    /\ progress' = d.progress

SetDBInit(d) ==
    /\ datasets = d.datasets
    /\ decks = d.decks
    /\ imports = d.imports
    /\ sentences = d.sentences
    /\ pathProgress = d.pathProgress
    /\ srs = d.srs
    /\ progress = d.progress

SetUIInit(u) ==
    /\ datasetId = u.datasetId
    /\ deckId = u.deckId
    /\ pathProg = u.pathProg
    /\ row = u.row
    /\ srsRow = u.srsRow

SetUI(u) ==
    /\ datasetId' = u.datasetId
    /\ deckId' = u.deckId
    /\ pathProg' = u.pathProg
    /\ row' = u.row
    /\ srsRow' = u.srsRow

\* Table.put on each table's primary key.
PutSentence(S, r) == {s \in S : s.id # r.id} \cup {r}
PutPathProgress(P, p) ==
    {q \in P : ~(q.datasetId = p.datasetId /\ q.deckId = p.deckId)} \cup {p}
PutSRS(S, r) ==
    {q \in S : ~(q.datasetId = r.datasetId /\ q.deckId = r.deckId
                 /\ q.sentenceId = r.sentenceId)} \cup {r}

\* where("[datasetId+deckId]").equals([ds, dk])
SentencesOf(S, ds, dk) == {s \in S : s.datasetId = ds /\ s.deckId = dk}
\* where("[datasetId+deckId+order]").equals([ds, dk, o]).first()
SentenceAt(S, ds, dk, o) ==
    LET hit == {s \in SentencesOf(S, ds, dk) : s.order = o}
    IN IF hit = {} THEN {} ELSE {FirstById(hit)}
\* db.pathProgress.get([ds, dk])
GetPathProgress(P, ds, dk) == {p \in P : p.datasetId = ds /\ p.deckId = dk}
\* db.srs.get([ds, dk, sid])
GetSRS(S, ds, dk, sid) ==
    {q \in S : q.datasetId = ds /\ q.deckId = dk /\ q.sentenceId = sid}

\* ------------------------------------------------------------ SRS grading
\* scoreSRS: ease in hundredths, mult in tenths.
scoreSRSUnclamped(ease, rating) ==
    IF rating = "again" THEN [ease |-> ease - 20, mult |-> 0, minDays |-> 0]
    ELSE IF rating = "hard" THEN [ease |-> ease - 5, mult |-> 10, minDays |-> 1]
    ELSE IF rating = "good" THEN [ease |-> ease + 0, mult |-> 18, minDays |-> 1]
    ELSE [ease |-> ease + 10, mult |-> 22, minDays |-> 1]

scoreSRS(ease, rating) ==
    IF rating = "again" THEN [ease |-> clamp(ease - 20, EaseMin, EaseMax), mult |-> 0, minDays |-> 0]
    ELSE IF rating = "hard" THEN [ease |-> clamp(ease - 5, EaseMin, EaseMax), mult |-> 10, minDays |-> 1]
    ELSE IF rating = "good" THEN [ease |-> clamp(ease + 0, EaseMin, EaseMax), mult |-> 18, minDays |-> 1]
    ELSE [ease |-> clamp(ease + 10, EaseMin, EaseMax), mult |-> 22, minDays |-> 1]

scheduleSRSAgainKeepsInterval(state, rating) ==
    LET scored == scoreSRS(state.ease, rating)
        reps == IF rating = "again" THEN 0 ELSE state.reps + 1
        nextInterval ==
            IF rating = "again" THEN state.intervalDays
            ELSE IF state.reps = 0 THEN Max2(1, scored.minDays)
            ELSE IF state.reps = 1 THEN Max2(3, scored.minDays)
            ELSE Max2(RoundDiv(state.intervalDays * scored.ease * scored.mult, 1000),
                      scored.minDays)
    IN [reps |-> reps, intervalDays |-> nextInterval, ease |-> scored.ease]

scheduleSRSNoSecondStep(state, rating) ==
    LET scored == scoreSRS(state.ease, rating)
        reps == IF rating = "again" THEN 0 ELSE state.reps + 1
        nextInterval ==
            IF rating = "again" THEN 0
            ELSE IF state.reps = 0 THEN Max2(1, scored.minDays)
            ELSE Max2(RoundDiv(state.intervalDays * scored.ease * scored.mult, 1000),
                      scored.minDays)
    IN [reps |-> reps, intervalDays |-> nextInterval, ease |-> scored.ease]

scheduleSRSShortSecondStep(state, rating) ==
    LET scored == scoreSRS(state.ease, rating)
        reps == IF rating = "again" THEN 0 ELSE state.reps + 1
        nextInterval ==
            IF rating = "again" THEN 0
            ELSE IF state.reps = 0 THEN Max2(1, scored.minDays)
            ELSE IF state.reps = 1 THEN Max2(2, scored.minDays)
            ELSE Max2(RoundDiv(state.intervalDays * scored.ease * scored.mult, 1000),
                      scored.minDays)
    IN [reps |-> reps, intervalDays |-> nextInterval, ease |-> scored.ease]

scheduleSRS(state, rating) ==
    LET scored == scoreSRS(state.ease, rating)
        reps == IF rating = "again" THEN 0 ELSE state.reps + 1
        nextInterval ==
            IF rating = "again" THEN 0
            ELSE IF state.reps = 0 THEN Max2(1, scored.minDays)
            ELSE IF state.reps = 1 THEN Max2(3, scored.minDays)
            ELSE Max2(RoundDiv(state.intervalDays * scored.ease * scored.mult, 1000),
                      scored.minDays)
    IN [reps |-> reps, intervalDays |-> nextInterval, ease |-> scored.ease]

\* The SRS row pickCurrent and rateSRS make for a sentence that has none.
SeededSRS(ds, dk, sid, t) ==
    [datasetId |-> ds, deckId |-> dk, sentenceId |-> sid, dueAt |-> t, reps |-> 0,
     ease |-> EaseInit, intervalDays |-> 0, lastReviewedAt |-> 0]

\* ------------------------------------------------------------ store calls
\* The legacy progress row createDataset and importAllFromJSON seed.
ZeroLegacy(ds) ==
    [datasetId |-> ds, currentIndex |-> 0, lifetimeReps |-> 0, lifetimeTokens |-> 0]

ZeroProgress(ds, dk) ==
    [datasetId |-> ds, deckId |-> dk, mode |-> "linear", linearOrder |-> 0,
     srsNewOrder |-> 0, lifetimeReps |-> 0, lifetimeTokens |-> 0]

ensurePathProgress(d, ds, dk) ==
    IF GetPathProgress(d.pathProgress, ds, dk) # {} THEN d
    ELSE [d EXCEPT !.pathProgress = PutPathProgress(@, ZeroProgress(ds, dk))]

\* clearPathData with the path's lifetime counters zeroed as well.
clearPathDataResetsCounters(d, ds, dk) ==
    LET pp == GetPathProgress(d.pathProgress, ds, dk)
    IN [d EXCEPT
          !.sentences = @ \ SentencesOf(@, ds, dk),
          !.srs = {q \in @ : ~(q.datasetId = ds /\ q.deckId = dk /\ q.dueAt >= 0)},
          !.imports = {b \in @ : ~(b.datasetId = ds /\ b.deckId = dk)},
          !.pathProgress =
              IF pp = {} THEN @
              ELSE LET p == CHOOSE x \in pp : TRUE
                   IN PutPathProgress(@, [p EXCEPT !.linearOrder = 0, !.srsNewOrder = 0,
                                                 !.lifetimeReps = 0, !.lifetimeTokens = 0])]

clearPathData(d, ds, dk) ==
    LET pp == GetPathProgress(d.pathProgress, ds, dk)
    IN [d EXCEPT
          !.sentences = @ \ SentencesOf(@, ds, dk),
          !.srs = {q \in @ : ~(q.datasetId = ds /\ q.deckId = dk /\ q.dueAt >= 0)},
          !.imports = {b \in @ : ~(b.datasetId = ds /\ b.deckId = dk)},
          !.pathProgress =
              IF pp = {} THEN @
              ELSE LET p == CHOOSE x \in pp : TRUE
                   IN PutPathProgress(@, [p EXCEPT !.linearOrder = 0, !.srsNewOrder = 0])]

\* rows.sort by (order, id), then order := index.
Renumbered(rows) ==
    {[r EXCEPT !.order = Cardinality({x \in rows : ByOrderId(x, r)})] : r \in rows}

normalizeOrdersAndClampProgress(d, ds, dk) ==
    LET rows == SentencesOf(d.sentences, ds, dk)
        n == Cardinality(rows)
        last == Max2(0, n - 1)
        pp == GetPathProgress(d.pathProgress, ds, dk)
    IN [d EXCEPT
          !.sentences = (@ \ rows) \cup Renumbered(rows),
          !.pathProgress =
              IF pp = {} THEN @
              ELSE LET p == CHOOSE x \in pp : TRUE
                   IN PutPathProgress(@,
                        [p EXCEPT !.linearOrder = IF n > 0 THEN Min2(p.linearOrder, last) ELSE 0,
                                  !.srsNewOrder = IF n > 0 THEN Min2(p.srsNewOrder, last) ELSE 0])]

deleteImportBatch(d, ds, dk, importId) ==
    LET rows == {s \in SentencesOf(d.sentences, ds, dk) : s.importId = importId}
        ids == {s.id : s \in rows}
        d1 == [d EXCEPT
                 !.sentences = {s \in @ : s.id \notin ids},
                 !.srs = {q \in @ : ~(q.datasetId = ds /\ q.deckId = dk /\ q.sentenceId \in ids)},
                 !.imports = {b \in @ : b.id # importId}]
    IN normalizeOrdersAndClampProgress(d1, ds, dk)

getNextOrderBase(d, ds, dk) ==
    LET rows == {s \in SentencesOf(d.sentences, ds, dk) : s.order >= 0}
    IN IF rows = {} THEN 0 ELSE LastByOrder(rows).order + 1

\* tokenRaw ? Math.max(0, Number(tokenRaw) || 0) : countTokens(targetText, cjkMode)
ImportTokenCount(r) ==
    IF r.raw = {} THEN r.tt ELSE Max2(0, CHOOSE n \in r.raw : TRUE)

\* The row loop: a row whose source and target texts are both empty is
\* skipped; the id of any other row is its id cell when there is one and a
\* fresh id otherwise; bulkPut upserts in row order.
RECURSIVE ImportRows(_, _, _, _, _, _, _, _, _)
ImportRows(S, rows, i, ds, dk, baseOrder, importId, inserted, fresh) ==
    IF i > Len(rows) THEN [sentences |-> S, inserted |-> inserted, gen |-> fresh]
    ELSE IF rows[i].blank
    THEN ImportRows(S, rows, i + 1, ds, dk, baseOrder, importId, inserted, fresh)
    ELSE LET r == rows[i]
             id == IF r.id # {} THEN CHOOSE x \in r.id : TRUE ELSE fresh
             s == [id |-> id, datasetId |-> ds, deckId |-> dk,
                   order |-> baseOrder + inserted, importId |-> importId,
                   tokenCount |-> ImportTokenCount(r), tt |-> r.tt]
         IN ImportRows(PutSentence(S, s), rows, i + 1, ds, dk, baseOrder, importId,
                       inserted + 1, IF r.id # {} THEN fresh ELSE fresh + 1)

\* importCSVorTSV / importXLSX after the header check: [db, imported, gen].
importRowsInto(d, ds, dk, rows, mode, importId, fresh) ==
    LET d1 == IF mode = "replace" THEN clearPathData(d, ds, dk) ELSE d
        baseOrder == IF mode = "replace" THEN 0 ELSE getNextOrderBase(d1, ds, dk)
        res == ImportRows(d1.sentences, rows, 1, ds, dk, baseOrder, importId, 0, fresh)
        batch == [id |-> importId, datasetId |-> ds, deckId |-> dk, mode |-> mode,
                  startOrder |-> baseOrder,
                  endOrder |-> Max2(baseOrder - 1, baseOrder + res.inserted - 1),
                  rowCount |-> res.inserted]
    IN [db |-> [d1 EXCEPT !.sentences = res.sentences, !.imports = @ \cup {batch}],
        imported |-> res.inserted, gen |-> res.gen]

\* ------------------------------------------------- importers: the headers
\* Header cells as parseDelimited leaves them (trimmed, lower-cased), and the
\* facts String.includes gives on them.
HeaderNames == {"english", "prompt", "english sentence", "target", "answer",
                "target language (greek)", "notes"}
Includes(h, p) ==
    h = p \/ <<h, p>> \in {<<"english sentence", "english">>,
                           <<"target language (greek)", "target">>}

\* pickHeader(headers, primaryKey, {equalsAny, containsAny}): string | undefined.
pickHeader(headers, primaryKey, equalsAny, containsAny) ==
    LET hset == {headers[i] : i \in DOMAIN headers}
        eq == {i \in DOMAIN equalsAny : equalsAny[i] \in hset}
        every == {i \in DOMAIN headers :
                     \A j \in DOMAIN containsAny : Includes(headers[i], containsAny[j])}
        some == {i \in DOMAIN headers :
                     \E j \in DOMAIN containsAny : Includes(headers[i], containsAny[j])}
    IN IF primaryKey \in hset THEN {primaryKey}
       ELSE IF eq # {} THEN {equalsAny[CHOOSE i \in eq : \A j \in eq : i <= j]}
       ELSE IF containsAny # <<>> /\ every # {}
            THEN {headers[CHOOSE i \in every : \A j \in every : i <= j]}
       ELSE IF containsAny # <<>> /\ some # {}
            THEN {headers[CHOOSE i \in some : \A j \in some : i <= j]}
       ELSE {}

\* inferMappingFromHeaders with ImportPanel's mapping (english, target): the
\* keys the header check reads.
inferMappingFromHeaders(headers) ==
    LET src == pickHeader(headers, "english",
                          <<"english", "en", "source", "source text", "source sentence",
                            "prompt">>, <<"english">>)
        tgt == pickHeader(headers, "target",
                          <<"target", "target text", "target sentence", "answer",
                            "response">>, <<"target">>)
    IN [sourceKey |-> IF src # {} THEN CHOOSE x \in src : TRUE ELSE "english",
        targetKey |-> IF tgt # {} THEN CHOOSE x \in tgt : TRUE ELSE "target"]

haveSourceOrTarget(headers, resolved) ==
    \/ \E i \in DOMAIN headers : headers[i] = resolved.sourceKey
    \/ \E i \in DOMAIN headers : headers[i] = resolved.targetKey

\* haveSource && haveTarget
haveSourceAndTarget(headers, resolved) ==
    /\ \E i \in DOMAIN headers : headers[i] = resolved.sourceKey
    /\ \E i \in DOMAIN headers : headers[i] = resolved.targetKey

\* importCSVorTSV of a file [headers, rows]: [db, imported, gen, error].
importCSVorTSV(d, ds, dk, file, mode, importId, fresh) ==
    LET resolved == inferMappingFromHeaders(file.headers)
    IN IF ~haveSourceAndTarget(file.headers, resolved)
       THEN [db |-> d, imported |-> 0, gen |-> fresh, error |-> TRUE]
       ELSE LET i == importRowsInto(d, ds, dk, file.rows, mode, importId, fresh)
            IN [db |-> i.db, imported |-> i.imported, gen |-> i.gen, error |-> FALSE]

\* importXLSX of a sheet: its headers are the keys of the first data row.
importXLSX(d, ds, dk, file, mode, importId, fresh) ==
    importCSVorTSV(d, ds, dk,
                   [file EXCEPT !.headers = IF Len(file.rows) = 0 THEN <<>> ELSE @],
                   mode, importId, fresh)

\* ------------------------------------------------ db.ts: the v2 upgrade
\* `deck_${ds.id}`
legacyDeckIdFresh(d, ds) == 0 - ds - 10 * Cardinality(d.decks)

legacyDeckId(d, ds) == 0 - ds

legacyOrderDescending(rows, s) == Cardinality({x \in rows : ById(s, x)})

\* The index of s in legacySentences sorted by String(id).localeCompare.
legacyOrder(rows, s) == Cardinality({x \in rows : ById(x, s)})

\* The body of the upgrade's loop for the language ds, cut after `writes` of
\* its three writes (the deck, the sentences, the progress row); 3 is all of it.
upgradeDataset(d, ds, writes) ==
    LET dk == legacyDeckId(d, ds)
        existingDeck == \E k \in d.decks : k.id = dk
        d1 == IF existingDeck \/ writes < 1 THEN d
              ELSE [d EXCEPT !.decks = @ \cup {[id |-> dk, datasetId |-> ds,
                                                name |-> "Main"]}]
        legacySentences == {s \in d1.sentences : s.datasetId = ds}
        assigned == {[s EXCEPT !.deckId = dk,
                               !.order = legacyOrder(legacySentences, s),
                               !.importId = LegacyImportId] : s \in legacySentences}
        d2 == IF writes < 2 THEN d1
              ELSE [d1 EXCEPT !.sentences = (@ \ legacySentences) \cup assigned]
        legacyProg == {q \in d2.progress : q.datasetId = ds}
        existingPP == GetPathProgress(d2.pathProgress, ds, dk)
        linearOrder == IF legacyProg = {} THEN 0
                       ELSE (CHOOSE q \in legacyProg : TRUE).currentIndex
        pp == [datasetId |-> ds, deckId |-> dk, mode |-> "linear",
               linearOrder |-> linearOrder, srsNewOrder |-> linearOrder,
               lifetimeReps |-> IF legacyProg = {} THEN 0
                                ELSE (CHOOSE q \in legacyProg : TRUE).lifetimeReps,
               lifetimeTokens |-> IF legacyProg = {} THEN 0
                                  ELSE (CHOOSE q \in legacyProg : TRUE).lifetimeTokens]
    IN IF writes < 3 \/ existingPP # {} THEN d2
       ELSE [d2 EXCEPT !.pathProgress = PutPathProgress(@, pp)]

\* The loop over datasets.toArray() (ascending id), stopped after `writes` writes.
RECURSIVE upgradeFrom(_, _, _)
upgradeFrom(d, todo, writes) ==
    IF todo = {} THEN d
    ELSE LET ds == CHOOSE x \in todo : \A y \in todo : x <= y
         IN upgradeFrom(upgradeDataset(d, ds, Min2(3, writes)), todo \ {ds},
                        Max2(0, writes - 3))

\* version(2).upgrade
upgrade(d) == upgradeFrom(d, d.datasets, 3 * Cardinality(d.datasets))

\* The upgrade cut short after `writes` writes.
upgradePartial(d, writes) == upgradeFrom(d, d.datasets, writes)

\* ---------------------------------------------------- App.tsx: the queries
Res(d, u) == [db |-> d, ui |-> u]

\* refreshCounts: only its setPathProg is state the handlers read.
refreshCounts(d, u) ==
    IF u.datasetId = NoSel \/ u.deckId = NoSel THEN u
    ELSE LET pp == GetPathProgress(d.pathProgress, u.datasetId, u.deckId)
         IN IF pp # {} THEN [u EXCEPT !.pathProg = pp] ELSE u

\* The linear branch with the fallback always taking the first sentence.
pickLinearFirst(d, u, pp) ==
    LET current == SentenceAt(d.sentences, u.datasetId, u.deckId, pp.linearOrder)
        ordered == {s \in SentencesOf(d.sentences, u.datasetId, u.deckId) : s.order >= 0}
    IN IF current # {} THEN Res(d, [u EXCEPT !.row = current, !.srsRow = {}])
       ELSE IF ordered = {} THEN Res(d, [u EXCEPT !.row = {}, !.srsRow = {}])
       ELSE LET chosen == FirstByOrder(ordered)
                fixed == [pp EXCEPT !.linearOrder = chosen.order]
            IN Res([d EXCEPT !.pathProgress = PutPathProgress(@, fixed)],
                   [u EXCEPT !.pathProg = {fixed}, !.row = {chosen}, !.srsRow = {}])

\* pickCurrent, linear branch.
pickLinear(d, u, pp) ==
    LET current == SentenceAt(d.sentences, u.datasetId, u.deckId, pp.linearOrder)
        ordered == {s \in SentencesOf(d.sentences, u.datasetId, u.deckId) : s.order >= 0}
    IN IF current # {} THEN Res(d, [u EXCEPT !.row = current, !.srsRow = {}])
       ELSE IF ordered = {} THEN Res(d, [u EXCEPT !.row = {}, !.srsRow = {}])
       ELSE LET first == FirstByOrder(ordered)
                last == LastByOrder(ordered)
                chosen == IF pp.linearOrder > last.order THEN last ELSE first
                fixed == [pp EXCEPT !.linearOrder = chosen.order]
            IN Res([d EXCEPT !.pathProgress = PutPathProgress(@, fixed)],
                   [u EXCEPT !.pathProg = {fixed}, !.row = {chosen}, !.srsRow = {}])

\* The rows of the due query, and the one sortBy("dueAt") puts first.
DueRows(d, ds, dk, t) ==
    {q \in d.srs : q.datasetId = ds /\ q.deckId = dk /\ q.dueAt >= 0 /\ q.dueAt <= t}

DueOtherThanShown(due, shown) ==
    LET other == {q \in due : q.sentenceId \notin {r.id : r \in shown}}
    IN IF other # {} THEN FirstByDue(other) ELSE FirstByDue(due)

DueLatest(due, shown) == CHOOSE q \in due : \A r \in due : r = q \/ ByDueId(r, q)

DueFirst(due, shown) == FirstByDue(due)

\* pickCurrent, SRS branch: due first, else new.
pickSRS(d, u, pp, t) ==
    LET due == DueRows(d, u.datasetId, u.deckId, t)
    IN IF due # {}
       THEN LET s == DueFirst(due, u.row)
            IN Res(d, [u EXCEPT !.row = {x \in d.sentences : x.id = s.sentenceId},
                                !.srsRow = {s}])
       ELSE LET fresh == SentenceAt(d.sentences, u.datasetId, u.deckId, pp.srsNewOrder)
            IN IF fresh = {} THEN Res(d, [u EXCEPT !.row = {}, !.srsRow = {}])
               ELSE LET f == CHOOSE x \in fresh : TRUE
                        existing == GetSRS(d.srs, u.datasetId, u.deckId, f.id)
                        seeded == IF existing # {} THEN existing
                                  ELSE {SeededSRS(u.datasetId, u.deckId, f.id, t)}
                    IN Res([d EXCEPT !.srs = IF existing = {}
                                               THEN PutSRS(@, CHOOSE x \in seeded : TRUE)
                                               ELSE @],
                           [u EXCEPT !.row = fresh, !.srsRow = seeded])

pickCurrent(d, u, t) ==
    IF u.datasetId = NoSel \/ u.deckId = NoSel THEN Res(d, u)
    ELSE LET pps == GetPathProgress(d.pathProgress, u.datasetId, u.deckId)
         IN IF pps = {} THEN Res(d, [u EXCEPT !.row = {}, !.srsRow = {}])
            ELSE LET pp == CHOOSE x \in pps : TRUE
                 IN IF pp.mode = "linear" THEN pickLinear(d, u, pp)
                    ELSE pickSRS(d, u, pp, t)

\* The tail of most handlers: await refreshCounts(); await pickCurrent().
\* pickCurrent's own setPathProg (the pointer correction) is the later write.
RefreshAndPick(d, u, t) == pickCurrent(d, refreshCounts(d, u), t)

\* The effect on [pathProg.mode, linearOrder, srsNewOrder]: pickCurrent, then
\* refreshCounts, when a handler changed one of them.
EffectOnProgress(d, u0, u, t) ==
    LET key(pg) == {<<p.mode, p.linearOrder, p.srsNewOrder>> : p \in pg}
    IN IF u.pathProg # {} /\ key(u.pathProg) # key(u0.pathProg)
       THEN LET r == pickCurrent(d, u, t)
            IN Res(r.db, refreshCounts(r.db, r.ui))
       ELSE Res(d, u)

\* ---------------------------------------------------- App.tsx: the actions
\* ensureTokenCountForRow(r): [db, ui, tokens].  dataset is the selected
\* language's row of the datasets state.
ensureTokenCountForRow(d, u, r) ==
    IF u.datasetId \notin d.datasets
    THEN [db |-> d, ui |-> u, tokens |-> IF r.tokenCount = TokNull THEN 0 ELSE r.tokenCount]
    ELSE LET computed == r.tt
             needsPatch == r.tokenCount = TokNull \/ r.tokenCount # computed
             patched == [r EXCEPT !.tokenCount = computed]
         IN IF ~needsPatch THEN [db |-> d, ui |-> u, tokens |-> r.tokenCount]
            ELSE [db |-> [d EXCEPT !.sentences = PutSentence(@, patched)],
                  ui |-> IF \E x \in u.row : x.id = patched.id
                         THEN [u EXCEPT !.row = {patched}] ELSE u,
                  tokens |-> computed]

\* The srsNewOrder bumpLinear writes with the linearOrder it moves to.
newPointerAfterAdvanceFollows(pg, nextOrder) == nextOrder

newPointerAfterAdvance(pg, nextOrder) == Max2(pg.srsNewOrder, nextOrder)

\* bumpLinear(delta, countRep), pathProg and row being those of the render.
bumpLinear(d, u, delta, countRep, t) ==
    IF u.datasetId = NoSel \/ u.deckId = NoSel \/ u.pathProg = {} THEN Res(d, u)
    ELSE LET pg == CHOOSE x \in u.pathProg : TRUE
             leaving == u.row
             e == IF countRep /\ leaving # {}
                  THEN ensureTokenCountForRow(d, u, CHOOSE x \in leaving : TRUE)
                  ELSE [db |-> d, ui |-> u, tokens |-> 0]
             nextOrder == Max2(0, pg.linearOrder + delta)
             next == SentenceAt(e.db.sentences, u.datasetId, u.deckId, nextOrder)
             nextProg == [pg EXCEPT
                            !.linearOrder = nextOrder,
                            !.srsNewOrder = newPointerAfterAdvance(pg, nextOrder),
                            !.lifetimeReps = @ + (IF countRep THEN 1 ELSE 0),
                            !.lifetimeTokens = @ + (IF countRep THEN e.tokens ELSE 0)]
             d2 == [e.db EXCEPT !.pathProgress = PutPathProgress(@, nextProg)]
             u2 == [e.ui EXCEPT !.pathProg = {nextProg}, !.row = next, !.srsRow = {}]
             u3 == IF countRep /\ leaving # {} THEN refreshCounts(d2, u2) ELSE u2
         IN IF next = {} THEN Res(e.db, e.ui)
            ELSE EffectOnProgress(d2, u, u3, t)

newPointerAfterGrade(pg, currentSRS) ==
    IF currentSRS # {} THEN pg.srsNewOrder ELSE pg.srsNewOrder + 1

\* rateSRS(rating), up to its writes: the token-count patch of
\* ensureTokenCountForRow (e), the SRS row and the progress row it puts.
rateSRSWrites(d, u, rating, t) ==
    LET pg == CHOOSE x \in u.pathProg : TRUE
        r == CHOOSE x \in u.row : TRUE
        e == ensureTokenCountForRow(d, u, r)
        currentSRS == u.srsRow
        base == IF currentSRS # {} THEN CHOOSE x \in currentSRS : TRUE
                ELSE SeededSRS(u.datasetId, u.deckId, r.id, t)
        nextState == scheduleSRS([reps |-> base.reps, intervalDays |-> base.intervalDays,
                                  ease |-> base.ease], rating)
        nextSRS == [base EXCEPT !.reps = nextState.reps,
                                !.intervalDays = nextState.intervalDays,
                                !.ease = nextState.ease,
                                !.dueAt = t + nextState.intervalDays,
                                !.lastReviewedAt = t]
        nextProg == [pg EXCEPT
                       !.lifetimeReps = @ + 1,
                       !.lifetimeTokens = @ + e.tokens,
                       !.srsNewOrder = newPointerAfterGrade(pg, currentSRS)]
    IN [e |-> e, nextSRS |-> nextSRS, nextProg |-> nextProg]

\* rateSRS(rating).
rateSRS(d, u, rating, t) ==
    IF u.datasetId = NoSel \/ u.deckId = NoSel \/ u.pathProg = {} \/ u.row = {} THEN Res(d, u)
    ELSE LET w == rateSRSWrites(d, u, rating, t)
             d2 == [w.e.db EXCEPT !.srs = PutSRS(@, w.nextSRS),
                                  !.pathProgress = PutPathProgress(@, w.nextProg)]
             u2 == [w.e.ui EXCEPT !.pathProg = {w.nextProg}]
         IN RefreshAndPick(d2, u2, t)

\* The awaited writes of rateSRS, in the order it issues them.  Each is a
\* request of its own (rateSRS opens no transaction), committed when its await
\* returns.
GradeWrites == <<"sentences.put", "srs.put", "pathProgress.put">>

\* rateSRS(rating) when its write number failedWrite rejects: the promise
\* rateSRS returns rejects there, the writes before it stay, and neither
\* setPathProg nor refreshCounts nor pickCurrent runs.
rateSRSInterrupted(d, u, rating, t, failedWrite) ==
    IF u.datasetId = NoSel \/ u.deckId = NoSel \/ u.pathProg = {} \/ u.row = {} THEN Res(d, u)
    ELSE LET w == rateSRSWrites(d, u, rating, t)
         IN IF failedWrite = 1 THEN Res(d, u)
            ELSE IF failedWrite = 2 THEN Res(w.e.db, w.e.ui)
            ELSE Res([w.e.db EXCEPT !.srs = PutSRS(@, w.nextSRS)], w.e.ui)

\* toggleMode(mode), and the effect its setPathProg triggers.
toggleMode(d, u, mode, t) ==
    IF u.datasetId = NoSel \/ u.deckId = NoSel \/ u.pathProg = {} THEN Res(d, u)
    ELSE LET pg == CHOOSE x \in u.pathProg : TRUE
             next == [pg EXCEPT !.mode = mode]
         IN EffectOnProgress([d EXCEPT !.pathProgress = PutPathProgress(@, next)],
                             u, [u EXCEPT !.pathProg = {next}], t)

\* ------------------------------------------------------- backup.ts: JSON
\* JSON.stringify writes a non-finite number as null.
JsonNumber(n) == IF n = TokInf THEN TokNull ELSE n

exportAllToJSON(d) ==
    [datasets |-> d.datasets, decks |-> d.decks, imports |-> d.imports,
     sentences |-> {[s EXCEPT !.tokenCount = JsonNumber(@)] : s \in d.sentences},
     progress |-> {[p EXCEPT !.lifetimeTokens = JsonNumber(@)] : p \in d.progress},
     pathProgress |-> {[p EXCEPT !.lifetimeTokens = JsonNumber(@)] : p \in d.pathProgress},
     srs |-> d.srs]

ensureDecksForImport(dss, dks) ==
    \* the id `deck_${ds.id}` is written 0 - ds: no makeId("deck") result equals it
    dks \cup {[id |-> 0 - ds, datasetId |-> ds, name |-> "Main"] :
                 ds \in {x \in dss : ~\E k \in dks : k.datasetId = x}}

\* x ?? 0 of a number read from the document.
OrZero(x) == IF x = TokNull \/ x = Absent THEN 0 ELSE x

\* importAllFromJSON: the tables it writes for a parsed document.  A sentence
\* written by a version without decks has no deckId, order and importId
\* (Absent); decks.find gives a language's first deck in the document's order,
\* which for an exported document is the order of the deck ids.
importAllFromJSON(doc) ==
    LET dks == ensureDecksForImport(doc.datasets, doc.decks)
        deckOf(ds) == IF \E k \in dks : k.datasetId = ds /\ ds \in doc.datasets
                      THEN FirstById({k \in dks : k.datasetId = ds}).id
                      ELSE 0 - ds
        needsUpgrade == \E s \in doc.sentences :
                            s.deckId = Absent \/ s.order = Absent \/ s.importId = Absent
        upgraded ==
            {[s EXCEPT !.deckId = deckOf(s.datasetId),
                       !.order = Cardinality({x \in doc.sentences :
                                                 x.datasetId = s.datasetId /\ ById(x, s)}),
                       !.importId = IF @ = Absent THEN LegacyImportId ELSE @] :
                s \in doc.sentences}
        legacy(ds) == {p \in doc.progress : p.datasetId = ds}
        linearOrder(ds) == IF legacy(ds) = {} THEN 0
                           ELSE OrZero((CHOOSE p \in legacy(ds) : TRUE).currentIndex)
        derived ==
            {[datasetId |-> ds, deckId |-> deckOf(ds), mode |-> "linear",
              linearOrder |-> linearOrder(ds), srsNewOrder |-> linearOrder(ds),
              lifetimeReps |-> IF legacy(ds) = {} THEN 0
                               ELSE OrZero((CHOOSE p \in legacy(ds) : TRUE).lifetimeReps),
              lifetimeTokens |-> IF legacy(ds) = {} THEN 0
                                 ELSE OrZero((CHOOSE p \in legacy(ds) : TRUE).lifetimeTokens)] :
                ds \in doc.datasets}
    IN [datasets |-> doc.datasets, decks |-> dks, imports |-> doc.imports,
        sentences |-> IF needsUpgrade THEN upgraded ELSE doc.sentences,
        pathProgress |-> IF doc.pathProgress = {} THEN derived ELSE doc.pathProgress,
        srs |-> doc.srs,
        progress |-> IF doc.progress # {} THEN doc.progress
                     ELSE {ZeroLegacy(ds) : ds \in doc.datasets}]

\* --------------------------------------------------- start-up and seeding
\* countTokens of the first sample sentences' Greek text.
SampleTT == <<2, 2, 3, 3, 5, 2, 5, 5, 3, 4, 2, 6, 7, 5, 8>>

createDeck(d, g, ds, name) ==
    [db |-> [d EXCEPT !.decks = @ \cup {[id |-> g.deck, datasetId |-> ds, name |-> name]}],
     gen |-> [g EXCEPT !.deck = @ + 1], id |-> g.deck]

createDataset(d, g) ==
    LET d1 == [d EXCEPT !.datasets = @ \cup {g.ds},
                        !.progress = {q \in @ : q.datasetId # g.ds} \cup {ZeroLegacy(g.ds)}]
        c == createDeck(d1, [g EXCEPT !.ds = @ + 1], g.ds, "Main")
    IN [db |-> ensurePathProgress(c.db, g.ds, c.id), gen |-> c.gen, id |-> g.ds]

ensureDefaultDataset(d, g) ==
    IF d.datasets # {}
    THEN [db |-> d, gen |-> g, id |-> CHOOSE x \in d.datasets : \A y \in d.datasets : x <= y]
    ELSE createDataset(d, g)

ensureDefaultDeck(d, g, ds) ==
    LET existing == {k \in d.decks : k.datasetId = ds}
    IN IF existing # {} THEN [db |-> d, gen |-> g, id |-> FirstById(existing).id]
       ELSE LET c == createDeck(d, g, ds, "Main")
            IN [db |-> ensurePathProgress(c.db, ds, c.id), gen |-> c.gen, id |-> c.id]

\* The sample's batch and rows, written in one transaction.
seedSample(d, g, ds, dk) ==
    LET rows == {[id |-> g.s + i, datasetId |-> ds, deckId |-> dk, order |-> i,
                  importId |-> g.imp, tokenCount |-> SampleTT[i + 1],
                  tt |-> SampleTT[i + 1]] : i \in 0..(SampleLen - 1)}
        batch == [id |-> g.imp, datasetId |-> ds, deckId |-> dk, mode |-> "append",
                  startOrder |-> 0, endOrder |-> SampleLen - 1, rowCount |-> SampleLen]
    IN [db |-> [d EXCEPT !.imports = @ \cup {batch},
                         !.sentences = @ \cup rows],
        gen |-> [g EXCEPT !.s = @ + SampleLen, !.imp = @ + 1]]

seedSampleIfEmpty(d, g, ds, dk) ==
    IF SentencesOf(d.sentences, ds, dk) # {} THEN [db |-> d, gen |-> g]
    ELSE seedSample(d, g, ds, dk)

\* loadAll after the seeding: the selection kept in localStorage is the
\* current one, when set; ds and dk are the language and path ensured.
loadAllSelect(d, u, ds, dk) ==
    LET current == IF u.datasetId # NoSel THEN u.datasetId ELSE ds
        safeDatasetId == IF current \in d.datasets THEN current ELSE ds
        allDecks == {k \in d.decks : k.datasetId = safeDatasetId}
        firstDeck == IF allDecks # {} THEN FirstById(allDecks).id ELSE dk
        desired == IF u.deckId # NoSel THEN u.deckId ELSE firstDeck
        safeDeckId == IF \E k \in allDecks : k.id = desired THEN desired ELSE firstDeck
    IN [u EXCEPT !.datasetId = safeDatasetId, !.deckId = safeDeckId]

loadAll(d, u, g) ==
    LET a == ensureDefaultDataset(d, g)
        b == ensureDefaultDeck(a.db, a.gen, a.id)
        c == seedSampleIfEmpty(b.db, b.gen, a.id, b.id)
    IN [db |-> c.db, gen |-> c.gen, ui |-> loadAllSelect(c.db, u, a.id, b.id)]

\* ------------------------------------------------- App.tsx: the languages
\* createLanguage(name, tag): createDataset, ensureDefaultDeck, the selection.
createLanguage(d, u, g) ==
    LET c == createDataset(d, g)
        k == ensureDefaultDeck(c.db, c.gen, c.id)
    IN [db |-> k.db, gen |-> k.gen, ui |-> [u EXCEPT !.datasetId = c.id, !.deckId = k.id]]

\* The effect on [datasetId]: the selected path is kept when it is one of the
\* language's decks, else the language's first deck (or none) is selected.
DeckAfterLanguageChange(d, u) ==
    LET allDecks == {k \in d.decks : k.datasetId = u.datasetId}
        first == IF allDecks # {} THEN FirstById(allDecks).id ELSE NoSel
    IN IF u.deckId = NoSel \/ ~\E k \in allDecks : k.id = u.deckId
       THEN [u EXCEPT !.deckId = first] ELSE u

\* onDeleteLanguage(id, reassignToId): the store after it, and the selection.
onDeleteLanguage(d, u, id, reassignToId) ==
    IF id = reassignToId THEN Res(d, u)
    ELSE LET sents == {s \in d.sentences : s.datasetId = id}
             reassigned == {[s EXCEPT !.datasetId = reassignToId] : s \in sents}
             d1 == [d EXCEPT !.sentences = (@ \ sents) \cup reassigned,
                             !.datasets = @ \ {id}]
         IN Res(d1, IF u.datasetId = id
                    THEN DeckAfterLanguageChange(d1, [u EXCEPT !.datasetId = reassignToId])
                    ELSE u)

\* ------------------------------------------------------------ input sets
\* A file row: its id cell (empty or an id), the token count of its target
\* text, its token-count cell (empty or the number it parses to), and whether
\* its source and target texts are both empty (blank).
\* The files tried fill at most one of the two optional cells of a row.
Rows == {r \in [id : {{}} \cup {{x} : x \in ExtIds}, tt : TokVals, raw : {{}, {TokInf}},
                blank : {FALSE}] :
            r.id = {} \/ r.raw = {}}

RECURSIVE SeqsUpTo(_, _)
SeqsUpTo(S, n) ==
    IF n = 0 THEN {<<>>}
    ELSE LET shorter == SeqsUpTo(S, n - 1)
         IN shorter \cup {Append(q, x) : q \in {y \in shorter : Len(y) = n - 1}, x \in S}

Files == SeqsUpTo(Rows, MaxRows)

\* Header rows of at most MaxHeaders cells, and the files they head.
HeaderRows == SeqsUpTo(HeaderNames, MaxHeaders)
HeadedFiles == [headers : HeaderRows, rows : {f \in Files : Len(f) <= 1}]
\* Files without a source or a target column: the empty file, a sheet of
\* headers only, a file lacking the target column, one lacking both.
HeadlessFiles ==
    {[headers |-> <<>>, rows |-> <<>>]}
    \cup [headers : {<<"english", "target">>}, rows : {<<>>}]
    \cup [headers : {<<"english", "notes">>, <<"notes">>}, rows : {f \in Files : Len(f) = 1}]

\* Files of BatchSize to MaxTxRows rows: their import yields at least once.
TxFiles == {f \in SeqsUpTo(Rows, MaxTxRows) : Len(f) >= BatchSize}

\* Stores of schema version 1: one or two languages, sentences with the ids
\* 1..MaxLegacy and no deckId, order, importId, and per language at most one
\* progress row whose currentIndex may exceed the number of sentences.
LegacySentences(dss) ==
    {S \in SUBSET [id : 1..MaxLegacy, datasetId : dss, deckId : {Absent}, order : {Absent},
                   importId : {Absent}, tokenCount : TokVals, tt : TokVals] :
        \A x \in S, y \in S : x.id = y.id => x = y}
LegacyProgress(dss) ==
    {P \in SUBSET {[datasetId |-> ds, currentIndex |-> i, lifetimeReps |-> i,
                    lifetimeTokens |-> 2 * i] : ds \in dss, i \in 0..MaxLegacyIndex} :
        \A x \in P, y \in P : x.datasetId = y.datasetId => x = y}
LegacyStores ==
    UNION {[datasets : {dss}, decks : {{}}, imports : {{}}, sentences : LegacySentences(dss),
            pathProgress : {{}}, srs : {{}}, progress : LegacyProgress(dss)] :
              dss \in {{1}, {1, 2}}}

\* The backup document a version-1 store was exported to.
LegacyDoc(d) ==
    [datasets |-> d.datasets, decks |-> {}, imports |-> {},
     sentences |-> {[s EXCEPT !.tokenCount = JsonNumber(@)] : s \in d.sentences},
     progress |-> {[q EXCEPT !.lifetimeTokens = JsonNumber(@)] : q \in d.progress},
     pathProgress |-> {}, srs |-> {}]

FreshIdsNeeded(rows) ==
    Cardinality({i \in 1..Len(rows) : rows[i].id = {} /\ ~rows[i].blank})

\* The rows of a file with a source or a target text.
Admitted(rows) == Cardinality({i \in 1..Len(rows) : ~rows[i].blank})

\* The token-count cells of these rows, in file order.
AdmittedCells(rows) ==
    LET kept == SelectSeq(rows, LAMBDA r : ~r.blank)
    IN [i \in 1..Len(kept) |-> kept[i].raw]

\* ----------------------------------------------------------------- history
\* hist records what the last step did, for the properties that speak of
\* "after grading", "after an import" or "two calls in a row".
\* Auto-run as the app starts it: off, not paused, the home view, no
\* iteration of the effect waiting.
Auto0 == [autoRun |-> FALSE, autoPaused |-> FALSE, view |-> "home", iter |-> {}]

H0 == [op |-> "init", picked |-> FALSE, prevPicked |-> FALSE, rating |-> "",
       mode |-> "", k |-> 0, wasEmpty |-> FALSE, clean |-> FALSE, imp |-> 0,
       introduced |-> FALSE, wasNew |-> FALSE, wasDue |-> FALSE, ptrBefore |-> 0, gradedOrder |-> 0 - 1,
       cycle |-> FALSE, run |-> 0, fault |-> 0, deleted |-> 0, count |-> 0, admitted |-> 0, cells |-> <<>>, before |-> [reps |-> 0, intervalDays |-> 0, ease |-> EaseInit]]

Did(op, picked) == [H0 EXCEPT !.op = op, !.picked = picked]

\* ------------------------------------------------------------------- Init
EmptyDB == [datasets |-> {}, decks |-> {}, imports |-> {}, sentences |-> {},
            pathProgress |-> {}, srs |-> {}, progress |-> {}]
EmptyUI == [datasetId |-> NoSel, deckId |-> NoSel, pathProg |-> {}, row |-> {}, srsRow |-> {}]
Gen0 == [s |-> NumExtIds + 1, imp |-> 1, deck |-> 1, ds |-> 1]
Card0 == [reps |-> 0, intervalDays |-> 0, ease |-> EaseInit]

Init ==
    /\ SetDBInit(EmptyDB)
    /\ SetUIInit(EmptyUI)
    /\ now = 1
    /\ gen = Gen0
    /\ card = Card0
    /\ auto = Auto0
    /\ txn = {}
    /\ hist = H0

\* ---------------------------------------------------------------- actions
\* A step's writes.  hist.introduced: the step's pickCurrent seeded the card
\* it presents.  A handler's requests on the tables of an open transaction wait
\* until it has ended.
Commit(d, u, g, h) ==
    /\ \A x \in txn : x.status # "open"
    /\ SetDB(d)
    /\ SetUI(u)
    /\ gen' = g
    /\ hist' = [h EXCEPT !.introduced = (h.picked /\ u.srsRow # {} /\ ~(u.srsRow \subseteq srs))]
    /\ txn' = {}
    /\ UNCHANGED <<now, card, auto>>

\* No SRS row without its sentence in the row's own language and deck.
NoDanglingSRS(d) ==
    \A q \in d.srs : \E s \in d.sentences :
        s.id = q.sentenceId /\ s.datasetId = q.datasetId /\ s.deckId = q.deckId

Selected == datasetId # NoSel /\ deckId # NoSel
ShownMode == {p.mode : p \in pathProg}
DeckRows == SentencesOf(sentences, datasetId, deckId)
DeckProgress == GetPathProgress(pathProgress, datasetId, deckId)

\* The mount effect: loadAll, then the effect on [datasetId, deckId].
LoadAll ==
    /\ datasetId = NoSel
    /\ LET l == loadAll(DB, UI, gen)
           r == RefreshAndPick(l.db, l.ui, now)
       IN Commit(r.db, r.ui, l.gen, Did("load", TRUE))

\* "New path" (the name typed is written "Path"): createDeck,
\* ensurePathProgress, setDeckId and its effect.
CreateDeck ==
    /\ Selected /\ datasetId \in datasets
    /\ Cardinality(decks) < MaxDecks
    /\ LET c == createDeck(DB, gen, datasetId, "Path")
           d == ensurePathProgress(c.db, datasetId, c.id)
           r == RefreshAndPick(d, [UI EXCEPT !.deckId = c.id], now)
       IN Commit(r.db, r.ui, c.gen, Did("newdeck", TRUE))

\* The path picker: setDeckId and its effect.
SelectDeck ==
    /\ Selected
    /\ \E k \in {x \in decks : x.datasetId = datasetId /\ x.id # deckId} :
          LET r == RefreshAndPick(DB, [UI EXCEPT !.deckId = k.id], now)
          IN Commit(r.db, r.ui, gen, Did("select", TRUE))

\* ImportPanel.handleFile: importCSVorTSV on the selected path, then onImported.
ImportFile(files) ==
    /\ Selected /\ datasetId \in datasets /\ \E k \in decks : k.id = deckId
    /\ gen.imp <= MaxImports
    /\ \E rows \in files, mode \in ImportModes :
          /\ gen.s + FreshIdsNeeded(rows) <= NumExtIds + MaxGenIds + 1
          /\ LET before == DeckRows
                 i == importRowsInto(DB, datasetId, deckId, rows, mode, gen.imp, gen.s)
                 r == RefreshAndPick(i.db, UI, now)
             IN Commit(r.db, r.ui, [gen EXCEPT !.s = i.gen, !.imp = @ + 1],
                       [Did("import", TRUE) EXCEPT !.mode = mode, !.k = Len(rows),
                            !.wasEmpty = (before = {}), !.clean = NoDanglingSRS(DB),
                            !.imp = gen.imp, !.count = i.imported,
                            !.admitted = Admitted(rows), !.cells = AdmittedCells(rows)])

\* ImportPanel.handleFile with a file the importer rejects: the error is
\* caught and shown, onImported is not called.
ImportRejected(files) ==
    /\ Selected /\ datasetId \in datasets /\ \E k \in decks : k.id = deckId
    /\ \E file \in files, mode \in ImportModes, xlsx \in BOOLEAN :
          LET i == IF xlsx
                   THEN importXLSX(DB, datasetId, deckId, file, mode, gen.imp, gen.s)
                   ELSE importCSVorTSV(DB, datasetId, deckId, file, mode, gen.imp, gen.s)
          IN /\ i.error
             /\ Commit(i.db, UI, gen,
                       [Did("importRejected", FALSE) EXCEPT !.mode = mode, !.k = Len(file.rows)])

\* ---- an import of BatchSize rows or more, step by step
\* The store other requests are served from while the import waits in
\* Dexie.waitFor: the transaction stays open and nothing of it is committed.
waitForCommitsBatch(committed, work) == work

waitFor(committed, work) == committed

\* The next batch of the open import t: BatchSize rows pushed and bulkPut.
NextBatch(t) ==
    LET chunk == SubSeq(t.rows, t.done + 1, t.done + BatchSize)
        res == ImportRows(t.work.sentences, chunk, 1, t.ds, t.dk, t.baseOrder, t.importId,
                          t.inserted, t.fresh)
    IN [t EXCEPT !.work = [@ EXCEPT !.sentences = res.sentences],
                 !.done = @ + BatchSize, !.inserted = res.inserted, !.fresh = res.gen]

\* importCSVorTSV up to its first yield: the transaction is opened, a replace
\* import clears the path, the base order is read, the first batch is put.
ImportBegin(files, maxImports) ==
    /\ Selected /\ datasetId \in datasets /\ \E k \in decks : k.id = deckId
    /\ \A x \in txn : x.status # "open"
    /\ gen.imp <= maxImports
    /\ \E rows \in files, mode \in ImportModes :
          /\ Len(rows) >= BatchSize
          /\ gen.s + FreshIdsNeeded(rows) <= NumExtIds + MaxGenIds + 1
          /\ LET d1 == IF mode = "replace" THEN clearPathData(DB, datasetId, deckId) ELSE DB
                 baseOrder == IF mode = "replace" THEN 0
                              ELSE getNextOrderBase(d1, datasetId, deckId)
                 t == NextBatch([status |-> "open", begin |-> DB, work |-> d1, rows |-> rows,
                                 done |-> 0, inserted |-> 0, fresh |-> gen.s, mode |-> mode,
                                 importId |-> gen.imp, baseOrder |-> baseOrder,
                                 ds |-> datasetId, dk |-> deckId])
             IN /\ txn' = {t}
                /\ SetDB(waitFor(DB, t.work))
                /\ hist' = [Did("importBegin", FALSE) EXCEPT !.mode = mode, !.k = Len(rows)]
                /\ UNCHANGED <<uiVars, now, gen, card, auto>>

\* From one yield to the next: a further full batch.
ImportContinue ==
    \E t \in txn :
        /\ t.status = "open"
        /\ Len(t.rows) - t.done >= BatchSize
        /\ LET t2 == NextBatch(t)
           IN /\ txn' = {t2}
              /\ SetDB(waitFor(DB, t2.work))
              /\ hist' = [Did("importBatch", FALSE) EXCEPT !.mode = t.mode, !.k = Len(t.rows)]
              /\ UNCHANGED <<uiVars, now, gen, card, auto>>

\* After the last yield: the rest is put, the batch record added, the
\* transaction commits; then onImported.
ImportFinish ==
    \E t \in txn :
        /\ t.status = "open"
        /\ Len(t.rows) - t.done < BatchSize
        /\ LET rest == SubSeq(t.rows, t.done + 1, Len(t.rows))
               res == ImportRows(t.work.sentences, rest, 1, t.ds, t.dk, t.baseOrder,
                                 t.importId, t.inserted, t.fresh)
               batch == [id |-> t.importId, datasetId |-> t.ds, deckId |-> t.dk,
                         mode |-> t.mode, startOrder |-> t.baseOrder,
                         endOrder |-> Max2(t.baseOrder - 1, t.baseOrder + res.inserted - 1),
                         rowCount |-> res.inserted]
               d == [t.work EXCEPT !.sentences = res.sentences, !.imports = @ \cup {batch}]
               r == RefreshAndPick(d, UI, now)
           IN /\ txn' = {}
              /\ SetDB(r.db)
              /\ SetUI(r.ui)
              /\ gen' = [gen EXCEPT !.s = res.gen, !.imp = @ + 1]
              /\ hist' = [Did("import", TRUE) EXCEPT !.mode = t.mode, !.k = Len(t.rows),
                                                     !.imp = t.importId,
                                                     !.count = res.inserted,
                                                     !.admitted = Admitted(t.rows)]
              /\ UNCHANGED <<now, card, auto>>

\* A write of the open import rejects, or the page is closed: the transaction
\* aborts; handleFile shows the error and onImported is not called.
ImportAbort ==
    \E t \in txn :
        /\ t.status = "open"
        /\ txn' = {[t EXCEPT !.status = "aborted"]}
        /\ hist' = [Did("importAborted", FALSE) EXCEPT !.mode = t.mode, !.k = Len(t.rows)]
        /\ UNCHANGED <<storeVars, uiVars, now, gen, card, auto>>

\* "Delete" / "Undo last import": deleteImportBatch({datasetId, deckId, importId})
\* as importers defines it, then refreshCounts, pickCurrent.  (App.tsx passes the
\* three values as positional arguments; the operation is modelled with the
\* parameters its definition takes.)
DeleteImport ==
    /\ Selected
    /\ \E b \in {x \in imports : x.datasetId = datasetId /\ x.deckId = deckId} :
          LET d == deleteImportBatch(DB, datasetId, deckId, b.id)
              r == RefreshAndPick(d, UI, now)
          IN Commit(r.db, r.ui, gen, Did("delete", TRUE))

\* "Clear this path": clearPathData, refreshCounts, pickCurrent.
ClearPath ==
    /\ Selected
    /\ LET d == clearPathData(DB, datasetId, deckId)
           r == RefreshAndPick(d, UI, now)
       IN Commit(r.db, r.ui, gen, Did("clear", TRUE))

\* Prev / Next and the arrow keys (shown in linear mode): bumpLinear(delta, true).
\* With maxRun > 0, hist.run counts the presses of Next since the fresh deck.
BumpLinear(deltas, countReps, maxReps, maxRun) ==
    /\ Selected /\ pathProg # {} /\ ShownMode = {"linear"}
    /\ \A p \in pathProg : p.lifetimeReps < maxReps
    /\ maxRun = 0 \/ hist.run < maxRun
    /\ \E delta \in deltas, countRep \in countReps :
          LET r == bumpLinear(DB, UI, delta, countRep, now)
              moved == r.ui.pathProg # pathProg
              start == \A p \in pathProg :
                           p.linearOrder = 0 /\ p.lifetimeReps = 0 /\ p.lifetimeTokens = 0
              run == IF maxRun > 0 /\ delta = 1 /\ countRep
                     THEN (IF hist.run > 0 THEN hist.run + 1 ELSE IF start THEN 1 ELSE 0)
                     ELSE 0
          IN Commit(r.db, r.ui, gen,
                    [Did("advance", moved) EXCEPT !.run = run,
                         !.gradedOrder = IF row = {} THEN 0 - 1
                                         ELSE (CHOOSE x \in row : TRUE).order])

\* Again / Hard / Good / Easy and the keys 1-4 (shown in srs mode): rateSRS.
Rate(ratings, maxReps) ==
    /\ Selected /\ pathProg # {} /\ row # {} /\ ShownMode = {"srs"}
    /\ \A p \in pathProg : p.lifetimeReps < maxReps
    /\ \E rating \in ratings :
          LET r == rateSRS(DB, UI, rating, now)
              fresh == \A q \in srsRow : q.lastReviewedAt = 0
              due == \A q \in srsRow : q.dueAt <= now
              start == /\ \A p \in pathProg : p.srsNewOrder = 0
                       /\ \A q \in srs : (q.datasetId = datasetId /\ q.deckId = deckId)
                                            => q.lastReviewedAt = 0
          IN Commit(r.db, r.ui, gen,
                    [Did("rate", TRUE) EXCEPT !.rating = rating,
                         !.wasNew = (srsRow # {} /\ fresh /\ hist.introduced),
                         !.wasDue = (srsRow # {} /\ ~fresh /\ due),
                         !.ptrBefore = (CHOOSE p \in pathProg : TRUE).srsNewOrder,
                         !.gradedOrder = (CHOOSE x \in row : TRUE).order,
                         !.cycle = (rating # "again" /\ (hist.cycle \/ start))])

\* A grading during which one of the store's writes rejects (quota exceeded,
\* the database closed under the page): hist.fault is the write that failed.
\* When the token count needs no patch, write 1 is not issued and cannot fail.
RateInterrupted(ratings, maxReps) ==
    /\ Selected /\ pathProg # {} /\ row # {} /\ ShownMode = {"srs"}
    /\ \A p \in pathProg : p.lifetimeReps < maxReps
    /\ \A q \in srsRow : q.reps < maxReps
    /\ \E rating \in ratings, failedWrite \in DOMAIN GradeWrites :
          LET w == rateSRSWrites(DB, UI, rating, now)
              r == rateSRSInterrupted(DB, UI, rating, now, failedWrite)
          IN /\ failedWrite = 1 => w.e.db # DB
             /\ Commit(r.db, r.ui, gen,
                       [Did("rateFailed", FALSE) EXCEPT !.rating = rating,
                                                        !.fault = failedWrite])

\* LanguageManager "Add": createLanguage, then the effects of the selection.
AddLanguage ==
    /\ Selected
    /\ gen.ds <= MaxLanguages
    /\ LET c == createLanguage(DB, UI, gen)
           r == RefreshAndPick(c.db, c.ui, now)
       IN Commit(r.db, r.ui, c.gen, Did("addLanguage", TRUE))

\* The language picker: setDatasetId and its effects.
SelectLanguage ==
    /\ Selected
    /\ \E id \in datasets \ {datasetId} :
          LET u == DeckAfterLanguageChange(DB, [UI EXCEPT !.datasetId = id])
              r == IF u.deckId = NoSel THEN Res(DB, u) ELSE RefreshAndPick(DB, u, now)
          IN Commit(r.db, r.ui, gen, Did("selectLanguage", u.deckId # NoSel))

\* LanguageManager "Delete" (offered when there is more than one language,
\* with a target language chosen): onDeleteLanguage, then the effects of the
\* selection when it changed.
DeleteLanguage ==
    /\ Selected
    /\ Cardinality(datasets) > 1
    /\ \E id \in datasets : \E reassignToId \in datasets \ {id} :
          LET o == onDeleteLanguage(DB, UI, id, reassignToId)
              changed == o.ui.datasetId # datasetId \/ o.ui.deckId # deckId
              r == IF changed /\ o.ui.deckId # NoSel
                   THEN RefreshAndPick(o.db, o.ui, now) ELSE o
          IN Commit(r.db, r.ui, gen,
                    [Did("deleteLanguage", changed /\ o.ui.deckId # NoSel)
                         EXCEPT !.deleted = id])

\* Read / Review and the key m: toggleMode.
ToggleMode ==
    /\ Selected /\ pathProg # {}
    /\ \E mode \in Modes :
          LET r == toggleMode(DB, UI, mode, now)
          IN Commit(r.db, r.ui, gen,
                    [Did("toggle", ShownMode # {mode}) EXCEPT !.mode = mode])

\* A re-run of pickCurrent (an effect firing again) with nothing in between.
PickCurrent ==
    /\ Selected
    /\ LET r == pickCurrent(DB, UI, now)
       IN Commit(r.db, r.ui, gen, [Did("pick", TRUE) EXCEPT !.prevPicked = hist.picked])

\* A day passes.
Tick ==
    /\ now < MaxNow
    /\ now' = now + 1
    /\ hist' = Did("tick", FALSE)
    /\ UNCHANGED <<storeVars, uiVars, gen, card, auto, txn>>

\* "Restore backup" with the file "Download backup" just wrote:
\* importAllFromJSON, loadAll, refreshCounts, pickCurrent.
RestoreBackup ==
    /\ Selected
    /\ \E doc \in {exportAllToJSON(DB)} : \E d \in {importAllFromJSON(doc)} :
       \E l \in {loadAll(d, UI, gen)} : \E r \in {RefreshAndPick(l.db, l.ui, now)} :
          /\ l.gen.s <= NumExtIds + MaxGenIds + 1
          /\ l.gen.imp <= MaxImports + 1
          /\ Commit(r.db, r.ui, l.gen, Did("restore", TRUE))

\* Spec: the library side (load, decks, imports, undo, clear, restore) with
\* reading in linear mode and the switch to review mode.
Next ==
    \/ LoadAll
    \/ CreateDeck
    \/ SelectDeck
    \/ ImportFile(Files)
    \/ DeleteImport
    \/ ClearPath
    \/ BumpLinear({1}, {TRUE}, MaxLifetimeReps, 0)
    \/ ToggleMode
    \/ PickCurrent
    \/ RestoreBackup

Spec == Init /\ [][Next]_vars

\* SpecReview: practice on the built-in deck, in both modes, as days pass.
NextReview ==
    \/ LoadAll
    \/ ToggleMode
    \/ BumpLinear({1, 0 - 1}, {TRUE}, MaxReviewReps, 0)
    \/ Rate(Ratings, MaxReviewReps)
    \/ PickCurrent
    \/ Tick

SpecReview == Init /\ [][NextReview]_vars

\* ------------------------------------------- scheduleSRS as a pure function
\* SpecSRS: a card starts as pickCurrent seeds it and is graded repeatedly.
Grade ==
    \E rating \in Ratings :
        LET next == scheduleSRS(card, rating)
        IN /\ next.reps <= MaxCardReps
           /\ next.intervalDays <= MaxIntervalDays
           /\ card' = next
           /\ hist' = [Did("grade", FALSE) EXCEPT !.rating = rating, !.before = card]
           /\ UNCHANGED <<storeVars, uiVars, now, gen, auto, txn>>

NextSRS == Grade

SpecSRS == Init /\ [][NextSRS]_vars

\* ------------------------------------------- bumpLinear on a freshly read deck
\* SpecLinear: a language with one deck of 1..MaxLinDeck imported sentences,
\* just opened in linear mode; the reader presses Next.
LinearFiles ==
    {f \in SeqsUpTo([id : {{}}, tt : LinTokVals, raw : {{}}, blank : {FALSE}], MaxLinDeck) :
        Len(f) > 0}

InitLinear ==
    \E f \in LinearFiles :
        LET c == createDataset(EmptyDB, Gen0)
            dk == (CHOOSE k \in c.db.decks : TRUE).id
            i == importRowsInto(c.db, c.id, dk, f, "replace", c.gen.imp, c.gen.s)
            r == RefreshAndPick(i.db, [EmptyUI EXCEPT !.datasetId = c.id, !.deckId = dk], 1)
        IN /\ SetDBInit(r.db)
           /\ SetUIInit(r.ui)
           /\ now = 1
           /\ gen = [c.gen EXCEPT !.s = i.gen, !.imp = @ + 1]
           /\ card = Card0
           /\ auto = Auto0
           /\ txn = {}
           /\ hist = H0

NextLinear == BumpLinear({1}, {TRUE}, MaxRun, MaxRun)

SpecLinear == InitLinear /\ [][NextLinear]_vars

\* ------------------------------------------------ handlers under failures
\* SpecFaults: review of the built-in deck where a write of the store may
\* reject.
NextFaults ==
    \/ LoadAll
    \/ ToggleMode
    \/ Rate({"again", "good"}, MaxFaultReps)
    \/ RateInterrupted({"again", "good"}, MaxFaultReps)
    \/ PickCurrent

SpecFaults == Init /\ [][NextFaults]_vars

\* SpecHeaders: paths are added and selected, the mode is switched, and files
\* without the required columns are offered for import.
NextHeaders ==
    \/ LoadAll
    \/ CreateDeck
    \/ SelectDeck
    \/ ToggleMode
    \/ PickCurrent
    \/ ImportRejected(HeadlessFiles)

SpecHeaders == Init /\ [][NextHeaders]_vars

\* SpecLanguages: languages are added, selected and deleted; the built-in
\* deck is reviewed.
NextLanguages ==
    \/ LoadAll
    \/ AddLanguage
    \/ SelectLanguage
    \/ DeleteLanguage
    \/ ToggleMode
    \/ PickCurrent

SpecLanguages == Init /\ [][NextLanguages]_vars

\* SpecTx: imports that yield between batches, with the handlers that read
\* the deck.
NextTx ==
    \/ LoadAll
    \/ ImportBegin(TxFiles, MaxTxImports)
    \/ ImportContinue
    \/ ImportFinish
    \/ ImportAbort
    \/ ToggleMode
    \/ PickCurrent

SpecTx == Init /\ [][NextTx]_vars

\* ------------------------------------------------- migration and restore
\* SpecMigrate: a version-1 store is opened by the version-2 schema (the
\* upgrade runs), or its backup document is restored.
InitLegacy ==
    \E d \in LegacyStores :
        /\ SetDBInit(d)
        /\ SetUIInit(EmptyUI)
        /\ now = 1
        /\ gen = [Gen0 EXCEPT !.s = MaxLegacy + 1, !.ds = 3]
        /\ card = Card0
        /\ auto = Auto0
        /\ txn = {}
        /\ hist = H0

\* Dexie opens the store at version 2: the upgrade runs in its transaction.
Upgrade ==
    /\ hist.op = "init"
    /\ SetDB(upgrade(DB))
    /\ hist' = Did("upgrade", FALSE)
    /\ UNCHANGED <<uiVars, now, gen, card, auto, txn>>

\* The upgrade function applied to the store it has migrated.
UpgradeAgain ==
    /\ hist.op = "upgrade"
    /\ SetDB(upgrade(DB))
    /\ hist' = Did("upgradeAgain", FALSE)
    /\ UNCHANGED <<uiVars, now, gen, card, auto, txn>>

\* importAllFromJSON of the store's version-1 backup document (the tables it
\* leaves do not depend on what the store held).
RestoreLegacy ==
    /\ hist.op = "init"
    /\ SetDB(importAllFromJSON(LegacyDoc(DB)))
    /\ hist' = Did("restoreLegacy", FALSE)
    /\ UNCHANGED <<uiVars, now, gen, card, auto, txn>>

NextMigrate ==
    \/ Upgrade
    \/ UpgradeAgain
    \/ RestoreLegacy

SpecMigrate == InitLegacy /\ [][NextMigrate]_vars

\* ------------------------------------------------ restore as a transaction
\* The primary key of a row of a table (db.ts, version(2).stores).
KeyOf(table, x) ==
    CASE table = "datasets" -> x
      [] table = "progress" -> x.datasetId
      [] table = "pathProgress" -> <<x.datasetId, x.deckId>>
      [] table = "srs" -> <<x.datasetId, x.deckId, x.sentenceId>>
      [] OTHER -> x.id

bulkPut(table, old, new) ==
    {x \in old : \A y \in new : KeyOf(table, x) # KeyOf(table, y)} \cup new

\* The requests of importAllFromJSON's transaction body, in the order it
\* awaits them (a bulkPut the code skips for an empty array puts nothing).
RestoreTables == <<"datasets", "decks", "imports", "sentences", "progress", "pathProgress", "srs">>
RestoreWrites ==
    [i \in 1..Len(RestoreTables) |-> [op |-> "clear", table |-> RestoreTables[i]]]
        \o [i \in 1..Len(RestoreTables) |-> [op |-> "bulkPut", table |-> RestoreTables[i]]]

restoreWrite(d, rows, w) ==
    [d EXCEPT ![w.table] = IF w.op = "clear" THEN {} ELSE bulkPut(w.table, @, rows[w.table])]

\* What the store holds for everyone else once the body of a Dexie "rw"
\* transaction has written `work` over `committed`: the writes when the body
\* has run to its end, the contents before it otherwise.
transactionless(committed, work, done) == work

transaction(committed, work, done) == IF done THEN work ELSE committed

\* The backup files offered to "Restore backup": documents of version-1
\* stores of one language, the documents of the same stores once migrated,
\* and a file that is not JSON.
RestoreStores ==
    {d \in LegacyStores :
        /\ d.datasets = {1}
        /\ \A s \in d.sentences : s.id <= MaxRestoreRows
        /\ \A q \in d.progress : q.currentIndex = 0}
BackupDocs ==
    {LegacyDoc(d) : d \in RestoreStores} \cup {exportAllToJSON(upgrade(d)) : d \in RestoreStores}
BackupFiles ==
    [parsable : {TRUE}, doc : BackupDocs] \cup [parsable : {FALSE}, doc : {LegacyDoc(EmptyDB)}]

\* "Restore backup" with a file JSON.parse rejects: importAllFromJSON throws
\* in its first statement and the handler ends there.
RestoreRejected(files) ==
    /\ Selected
    /\ \A x \in txn : x.status # "open"
    /\ \E f \in files :
          /\ ~f.parsable
          /\ txn' = {[status |-> "rejected", begin |-> DB, work |-> DB, rows |-> DB, done |-> 0]}
          /\ hist' = Did("restoreRejected", FALSE)
          /\ UNCHANGED <<storeVars, uiVars, now, gen, card, auto>>

\* importAllFromJSON up to the first request of its transaction: the document
\* is parsed, the rows to write are computed, the transaction is opened.
RestoreBegin(files) ==
    /\ Selected
    /\ \A x \in txn : x.status # "open"
    /\ \E f \in files :
          /\ f.parsable
          /\ txn' = {[status |-> "open", begin |-> DB, work |-> DB,
                      rows |-> importAllFromJSON(f.doc), done |-> 0]}
          /\ hist' = Did("restoreBegin", FALSE)
          /\ UNCHANGED <<storeVars, uiVars, now, gen, card, auto>>

\* The next clear or bulkPut of the open restore.
RestoreWrite ==
    \E t \in txn :
        /\ t.status = "open"
        /\ t.done < Len(RestoreWrites)
        /\ LET t2 == [t EXCEPT !.work = restoreWrite(@, t.rows, RestoreWrites[t.done + 1]),
                               !.done = @ + 1]
           IN /\ txn' = {t2}
              /\ SetDB(transaction(DB, t2.work, FALSE))
              /\ hist' = Did("restoreWrite", FALSE)
              /\ UNCHANGED <<uiVars, now, gen, card, auto>>

\* The last request has succeeded: the transaction commits, then loadAll,
\* refreshCounts, pickCurrent.
RestoreFinish ==
    \E t \in txn :
        /\ t.status = "open"
        /\ t.done = Len(RestoreWrites)
        /\ LET d == transaction(DB, t.work, TRUE)
               l == loadAll(d, UI, gen)
               r == RefreshAndPick(l.db, l.ui, now)
           IN /\ l.gen.s <= NumExtIds + 2 * SampleLen + 1
              /\ txn' = {}
              /\ SetDB(r.db)
              /\ SetUI(r.ui)
              /\ gen' = l.gen
              /\ hist' = Did("restore", TRUE)
              /\ UNCHANGED <<now, card, auto>>

\* A request of the open restore rejects, or the page is closed: the
\* transaction aborts, importAllFromJSON rejects and the handler ends there.
RestoreAbort ==
    \E t \in txn :
        /\ t.status = "open"
        /\ txn' = {[t EXCEPT !.status = "aborted"]}
        /\ SetDB(transaction(DB, t.work, FALSE))
        /\ hist' = Did("restoreAborted", FALSE)
        /\ UNCHANGED <<uiVars, now, gen, card, auto>>

\* SpecRestore: the mounted app, the mode switch, and restores that succeed,
\* are rejected or fail part-way.
NextRestore ==
    \/ LoadAll
    \/ ToggleMode
    \/ PickCurrent
    \/ RestoreRejected(BackupFiles)
    \/ RestoreBegin(BackupFiles)
    \/ RestoreWrite
    \/ RestoreFinish
    \/ RestoreAbort

SpecRestore == Init /\ [][NextRestore]_vars

\* The token counts of the selected deck, in order.
RECURSIVE TokensFrom(_, _)
TokensFrom(S, o) ==
    LET at == {s \in S : s.order = o}
    IN IF at = {} THEN <<>> ELSE <<(CHOOSE s \in at : TRUE).tt>> \o TokensFrom(S, o + 1)

\* ------------------------------------------------------------- properties

\* Every (language, deck) that holds sentences.
DeckKeys == {<<s.datasetId, s.deckId>> : s \in sentences}
OrdersOf(ds, dk) == {s.order : s \in SentencesOf(sentences, ds, dk)}
CountOf(ds, dk) == Cardinality(SentencesOf(sentences, ds, dk))

\* C1: order density - in every state the operations reach, every (language,
\* deck) holding N sentences has the order values exactly 0 .. N-1, explicit
\* id column or not.
C1_OrderDensity ==
    \A key \in DeckKeys : OrdersOf(key[1], key[2]) = 0..(CountOf(key[1], key[2]) - 1)

\* C2: progress clamp - in every state the operations reach, linearOrder and
\* srsNewOrder of every PathProgress row lie in 0 .. max(0, N-1), N the number
\* of sentences of the row's deck.
C2_ProgressClamp ==
    \A p \in pathProgress :
        LET last == Max2(0, CountOf(p.datasetId, p.deckId) - 1)
        IN /\ 0 <= p.linearOrder /\ p.linearOrder <= last
           /\ 0 <= p.srsNewOrder /\ p.srsNewOrder <= last

\* C3: on a fresh deck with token counts [3, 5, 2], three calls of
\* advance(+1, true) leave lifetimeReps = 3 and lifetimeTokens = 10.
C3_ThreeAdvances ==
    (hist.run = 3 /\ TokensFrom(DeckRows, 0) = <<3, 5, 2>>)
        => \A p \in DeckProgress : p.lifetimeReps = 3 /\ p.lifetimeTokens = 10

\* C4: grading a card that pickCurrent introduced as new advances srsNewOrder
\* by exactly 1; grading a card selected because it was due leaves it unchanged.
C4_NewCardAdvancesPointer ==
    hist.op = "rate" =>
        \A p \in DeckProgress :
            /\ hist.wasNew => p.srsNewOrder = hist.ptrBefore + 1
            /\ hist.wasDue => p.srsNewOrder = hist.ptrBefore

\* C5: from no graded card and srsNewOrder = 0, cycles of pickCurrent and a
\* grade of hard/good/easy with no card becoming due present the sentences in
\* strictly ascending order, and never a reviewed sentence as a new card.
C5_NewCardsAscending ==
    (hist.op = "rate" /\ hist.cycle /\ row # {}) =>
        /\ \A x \in row : x.order > hist.gradedOrder
        /\ \A q \in srsRow : q.lastReviewedAt = 0

\* C6: a second pickCurrent in SRS mode, with nothing in between and the clock
\* unchanged, presents the same sentence and writes nothing to the store.
C6_SecondPickSame ==
    [][(hist'.op = "pick" /\ hist'.prevPicked /\ (\A p \in DeckProgress : p.mode = "srs"))
          => ({x.id : x \in row'} = {x.id : x \in row} /\ UNCHANGED storeVars)]_vars

C6_SecondPickReached ==
    /\ hist.op = "pick" /\ hist.prevPicked
    /\ \E p \in DeckProgress : p.mode = "srs"
    /\ row # {} /\ srsRow # {}
    /\ Cardinality(DueRows(DB, datasetId, deckId, now)) >= 2

\* C7 as stated: grading "again" gives reps = 0, intervalDays = 0 and an ease
\* lower than before and within [1.3, 2.8].
C7_AgainLowersEase ==
    (hist.op = "grade" /\ hist.rating = "again") =>
        /\ card.reps = 0 /\ card.intervalDays = 0
        /\ card.ease < hist.before.ease
        /\ EaseMin <= card.ease /\ card.ease <= EaseMax

\* C7: grading "again" gives reps = 0, intervalDays = 0 and an ease within
\* [1.3, 2.8] that is not higher than before, and lower unless it already was
\* at the floor 1.3.
C7_AgainResets ==
    (hist.op = "grade" /\ hist.rating = "again") =>
        /\ card.reps = 0 /\ card.intervalDays = 0
        /\ card.ease <= hist.before.ease
        /\ (hist.before.ease > EaseMin => card.ease < hist.before.ease)
        /\ EaseMin <= card.ease /\ card.ease <= EaseMax

C7_AgainOnMatureCard ==
    /\ hist.op = "grade" /\ hist.rating = "again"
    /\ hist.before.reps = 3 /\ hist.before.intervalDays = 10
    /\ card.reps = 0

\* C8: from every state reached, an append import into the selected deck
\* followed by deleteImportBatch of that batch restores the deck's sentences and
\* orders; into an empty deck, k rows give k sentences with orders 0 .. k-1 and
\* a batch with rowCount = k, and the delete leaves no sentence, no batch the
\* deck did not have and both pointers 0.
C8_ImportRoundTrip ==
    (Selected /\ DeckProgress # {}) =>
        \A f \in Files :
            LET a == importRowsInto(DB, datasetId, deckId, f, "append", gen.imp, gen.s)
                got == SentencesOf(a.db.sentences, datasetId, deckId)
                d == deleteImportBatch(a.db, datasetId, deckId, gen.imp)
            IN /\ SentencesOf(d.sentences, datasetId, deckId) = DeckRows
               /\ DeckRows = {} =>
                     /\ Cardinality(got) = Len(f)
                     /\ {s.order : s \in got} = 0..(Len(f) - 1)
                     /\ \E b \in a.db.imports : b.id = gen.imp /\ b.rowCount = Len(f)
                     /\ {b \in d.imports : b.datasetId = datasetId /\ b.deckId = deckId}
                            = {b \in imports : b.datasetId = datasetId /\ b.deckId = deckId}
                     /\ \A p \in GetPathProgress(d.pathProgress, datasetId, deckId) :
                            p.linearOrder = 0 /\ p.srsNewOrder = 0

\* C9: after an import in replace mode (into a store that had no such row), no
\* SRS row is left whose sentence is not stored in the row's own language and deck.
C9_ReplaceIsolation ==
    (hist.op = "import" /\ hist.mode = "replace" /\ hist.clean) => NoDanglingSRS(DB)

\* C10: in every state reached, restoring the exported backup reproduces the
\* sentences, the PathProgress rows and the SRS rows.
C10_BackupRoundTrip ==
    LET d == importAllFromJSON(exportAllToJSON(DB))
    IN /\ d.sentences = sentences
       /\ d.pathProgress = pathProgress
       /\ d.srs = srs

\* C11: a grading one of whose writes fails changes neither the SRSState row
\* nor the PathProgress row (no SRS update without the matching counter and
\* pointer update, and none the other way round).
C11_GradingAtomic ==
    [][hist'.op = "rateFailed" => (srs' = srs /\ pathProgress' = pathProgress)]_vars

\* A header row in which the importer finds the source column / the target
\* column: a cell that is one of the names it accepts or contains the word.
NamesSource(headers) ==
    \E i \in DOMAIN headers :
        headers[i] \in {"english", "en", "source", "source text", "source sentence",
                        "prompt", "english sentence"}
NamesTarget(headers) ==
    \E i \in DOMAIN headers :
        headers[i] \in {"target", "target text", "target sentence", "answer", "response",
                        "target language (greek)"}

\* C12: from every state reached, an import (delimited text or spreadsheet,
\* append or replace, the empty file included) whose headers name no source
\* column or no target column fails and leaves the store exactly as it was.
C12_RejectedImportWritesNothing ==
    Selected =>
        \A file \in HeadedFiles, mode \in ImportModes :
            (~NamesSource(file.headers) \/ ~NamesTarget(file.headers)) =>
                LET c == importCSVorTSV(DB, datasetId, deckId, file, mode, gen.imp, gen.s)
                    x == importXLSX(DB, datasetId, deckId, file, mode, gen.imp, gen.s)
                IN c.error /\ c.db = DB /\ x.error /\ x.db = DB

C12_ReplaceRejected ==
    /\ hist.op = "importRejected" /\ hist.mode = "replace" /\ hist.k > 0
    /\ DeckRows # {} /\ srs # {}
    /\ \E b \in imports : b.datasetId = datasetId /\ b.deckId = deckId

\* C15: after a language is deleted, no deck, sentence, import batch,
\* PathProgress or SRS row references it, and every sentence's (language, deck)
\* pair names a deck that exists and is owned by that language.
C15_NoReferenceToDeletedLanguage ==
    hist.op = "deleteLanguage" =>
        /\ \A k \in decks : k.datasetId # hist.deleted
        /\ \A s \in sentences : s.datasetId # hist.deleted
        /\ \A b \in imports : b.datasetId # hist.deleted
        /\ \A q \in pathProgress : q.datasetId # hist.deleted
        /\ \A q \in srs : q.datasetId # hist.deleted
        /\ \A s \in sentences :
               \E k \in decks : k.id = s.deckId /\ k.datasetId = s.datasetId

\* deleteImportBatch(ds, dk, importId) did what C14 says: it removed exactly the
\* sentences of (ds, dk) carrying importId, exactly the SRS rows of those
\* sentences, and the batch record; it kept every other sentence of the deck
\* in its relative order; it changed no row of another deck and no other
\* batch; and no sentence is left carrying the id of the removed batch.
DeletedExactly(d, ds, dk, importId) ==
    LET a == deleteImportBatch(d, ds, dk, importId)
        gone == {s \in SentencesOf(d.sentences, ds, dk) : s.importId = importId}
        kept == SentencesOf(d.sentences, ds, dk) \ gone
        after == SentencesOf(a.sentences, ds, dk)
        At(id) == CHOOSE s \in after : s.id = id
    IN /\ {s.id : s \in after} = {s.id : s \in kept}
       /\ \A x \in kept, y \in kept :
              ByOrderId(x, y) => At(x.id).order < At(y.id).order
       /\ \A x \in kept : [At(x.id) EXCEPT !.order = x.order] = x
       /\ a.sentences \ after = d.sentences \ SentencesOf(d.sentences, ds, dk)
       /\ a.srs = {q \in d.srs : ~(q.datasetId = ds /\ q.deckId = dk
                                     /\ q.sentenceId \in {s.id : s \in gone})}
       /\ a.imports = {b \in d.imports : b.id # importId}
       /\ \A s \in a.sentences : s.importId # importId

\* C14: from every state reached, for every deck of the selected language and
\* every stored import batch, deleteImportBatch(language, deck, importId) does
\* exactly that.
C14_DeleteBatchFrame ==
    Selected =>
        \A k \in {x \in decks : x.datasetId = datasetId}, b \in imports :
            DeletedExactly(DB, datasetId, k.id, b.id)

C16_MigrationBuildsDefaultDecks ==
    hist.op = "upgrade" =>
        /\ \A ds \in datasets :
               /\ Cardinality({k \in decks : k.datasetId = ds}) = 1
               /\ \A k \in decks : k.datasetId = ds => k.name = "Main"
        /\ \A s \in sentences :
               \E k \in decks : k.datasetId = s.datasetId /\ k.id = s.deckId
        /\ \A key \in DeckKeys : OrdersOf(key[1], key[2]) = 0..(CountOf(key[1], key[2]) - 1)
        /\ \A x \in sentences, y \in sentences :
               (x.datasetId = y.datasetId /\ x.id < y.id) => x.order < y.order

C16_TwoLanguagesMigrated ==
    /\ hist.op = "upgrade"
    /\ datasets = {1, 2}
    /\ Cardinality({s \in sentences : s.datasetId = 1}) = 2
    /\ \E s \in sentences : s.datasetId = 2

\* C17: after the migration, linearOrder and srsNewOrder of every PathProgress
\* row lie in 0 .. max(0, N-1), N the number of sentences of the row's deck,
\* whatever the legacy currentIndex was.
C17_MigrationClampsPointers ==
    hist.op = "upgrade" =>
        \A p \in pathProgress :
            LET last == Max2(0, CountOf(p.datasetId, p.deckId) - 1)
            IN /\ 0 <= p.linearOrder /\ p.linearOrder <= last
               /\ 0 <= p.srsNewOrder /\ p.srsNewOrder <= last

\* C18: the migration run on a store it has migrated changes nothing; run on
\* a store where an earlier run stopped after any number of its writes, it
\* changes no deck, no migrated sentence and no PathProgress row that run had
\* written, and gives the store an uninterrupted run gives.
C18_MigrationIdempotent ==
    /\ hist.op = "upgrade" => upgrade(DB) = DB
    /\ hist.op = "init" =>
          \A writes \in 0..(3 * Cardinality(datasets)) :
              LET p == upgradePartial(DB, writes)
                  m == upgrade(p)
              IN /\ m = upgrade(DB)
                 /\ upgrade(m) = m
                 /\ p.decks \subseteq m.decks
                 /\ p.pathProgress \subseteq m.pathProgress
                 /\ \A s \in p.sentences : s.deckId # Absent => s \in m.sentences

C18_MigratedTwice ==
    /\ hist.op = "upgradeAgain"
    /\ Cardinality(decks) = 2
    /\ Cardinality(sentences) >= 2
    /\ \E p \in pathProgress : p.linearOrder > 0

\* C19: restoring the backup document of a version-1 store gives the decks,
\* the sentences (deck and order) and the PathProgress rows the migration of
\* that store gives, and the restored store satisfies order density and the
\* pointer clamp.
C19_RestoreMatchesMigration ==
    hist.op = "init" =>
        LET r == importAllFromJSON(LegacyDoc(DB))
            m == upgrade(DB)
            n(ds, dk) == Cardinality(SentencesOf(r.sentences, ds, dk))
        IN /\ r.decks = m.decks
           /\ r.sentences = m.sentences
           /\ r.pathProgress = m.pathProgress
           /\ \A s \in r.sentences :
                  {x.order : x \in SentencesOf(r.sentences, s.datasetId, s.deckId)}
                      = 0..(n(s.datasetId, s.deckId) - 1)
           /\ \A p \in r.pathProgress :
                  /\ 0 <= p.linearOrder /\ p.linearOrder <= Max2(0, n(p.datasetId, p.deckId) - 1)
                  /\ 0 <= p.srsNewOrder /\ p.srsNewOrder <= Max2(0, n(p.datasetId, p.deckId) - 1)

Pointers(P) ==
    {[datasetId |-> p.datasetId, deckId |-> p.deckId, linearOrder |-> p.linearOrder,
      srsNewOrder |-> p.srsNewOrder, lifetimeReps |-> p.lifetimeReps,
      lifetimeTokens |-> p.lifetimeTokens] : p \in P}

\* C21: a switch of the study mode (toggleMode and the effect it triggers)
\* leaves linearOrder, srsNewOrder, lifetimeReps and lifetimeTokens of every
\* PathProgress row as they were, and changes the mode of the selected deck's
\* row only.
C21_ToggleKeepsPointers ==
    [][hist'.op = "toggle" =>
          /\ Pointers(pathProgress') = Pointers(pathProgress)
          /\ \A p \in pathProgress' :
                 (p.datasetId # datasetId \/ p.deckId # deckId) => p \in pathProgress]_vars

\* ------------------------------------------- one PathProgress row per deck
\* The backup documents of a store that keep the PathProgress rows of some of
\* its decks (at least one row), everything else as exported.
SnapshotDocs(d) ==
    {[exportAllToJSON(d) EXCEPT !.pathProgress = P] : P \in (SUBSET d.pathProgress) \ {{}}}

\* "Restore backup" with such a document: importAllFromJSON, loadAll,
\* refreshCounts, pickCurrent.
RestoreSnapshot ==
    /\ Selected
    /\ \E doc \in SnapshotDocs(DB) : \E d \in {importAllFromJSON(doc)} :
       \E l \in {loadAll(d, UI, gen)} : \E r \in {RefreshAndPick(l.db, l.ui, now)} :
          Commit(r.db, r.ui, l.gen, Did("restoreSnapshot", TRUE))

\* SpecPaths: languages and paths are created and selected, the mode is
\* switched, and backups with some or all PathProgress rows are restored.
NextPaths ==
    \/ LoadAll
    \/ AddLanguage
    \/ SelectLanguage
    \/ CreateDeck
    \/ SelectDeck
    \/ ToggleMode
    \/ RestoreSnapshot

SpecPaths == Init /\ [][NextPaths]_vars

\* C22: every deck has exactly one PathProgress row, after any sequence of
\* language creation, deck creation and restore, also of a snapshot that holds
\* PathProgress rows for only some of its decks.
C22_OneProgressPerDeck ==
    \A k \in decks :
        Cardinality({p \in pathProgress : p.datasetId = k.datasetId /\ p.deckId = k.id}) = 1

\* ------------------------------------------- createDataset under failures
\* The awaited writes of createDataset, in the order it issues them.  Each is
\* a request of its own (createDataset opens no transaction), committed when
\* its await returns.
CreateDatasetWrites == <<"datasets.add", "progress.put", "decks.add", "pathProgress.put">>

\* createDataset when its write number failedWrite rejects: the promise it
\* returns rejects there and the writes before it stay.
createDatasetInterrupted(d, g, failedWrite) ==
    LET d1 == [d EXCEPT !.datasets = @ \cup {g.ds}]
        d2 == [d1 EXCEPT !.progress = {q \in @ : q.datasetId # g.ds} \cup {ZeroLegacy(g.ds)}]
        c == createDeck(d2, [g EXCEPT !.ds = @ + 1], g.ds, "Main")
    IN CASE failedWrite = 1 -> [db |-> d, gen |-> [g EXCEPT !.ds = @ + 1]]
         [] failedWrite = 2 -> [db |-> d1, gen |-> [g EXCEPT !.ds = @ + 1]]
         [] failedWrite = 3 -> [db |-> d2, gen |-> [g EXCEPT !.ds = @ + 1]]
         [] OTHER -> [db |-> c.db, gen |-> c.gen]

\* LanguageManager "Add" during which a write of createDataset rejects (quota
\* exceeded, the page closed): createLanguage rejects with it, and neither the
\* selection nor an effect follows.
AddLanguageInterrupted ==
    /\ Selected
    /\ gen.ds <= MaxLanguages
    /\ \E failedWrite \in DOMAIN CreateDatasetWrites :
       \E c \in {createDatasetInterrupted(DB, gen, failedWrite)} :
          Commit(c.db, UI, c.gen, [Did("addLanguageFailed", FALSE) EXCEPT !.fault = failedWrite])

\* SpecCreate: languages are added (the writes of createDataset may reject),
\* selected and deleted, the mode is switched, the store is backed up and
\* restored.
NextCreate ==
    \/ LoadAll
    \/ AddLanguage
    \/ AddLanguageInterrupted
    \/ SelectLanguage
    \/ DeleteLanguage
    \/ ToggleMode
    \/ RestoreBackup

SpecCreate == Init /\ [][NextCreate]_vars

\* C23: every language has at least one deck in every reachable store state:
\* after createDataset, also when it fails part-way, after a restore and after
\* the deletion of a language.
C23_LanguageHasDeck ==
    \A ds \in datasets : \E k \in decks : k.datasetId = ds

\* C24: a linear advance that counts as a repetition and moves leaves
\* srsNewOrder = max(old srsNewOrder, new linearOrder); the sentence it left
\* by going forward lies below srsNewOrder; no step of reading or review
\* lowers srsNewOrder; and a card pickCurrent introduces is at or after
\* srsNewOrder, so it is none of the sentences passed in linear mode.
C24_AdvanceRaisesNewPointer ==
    /\ [][hist'.op = "advance" /\ hist'.picked =>
             \A p \in DeckProgress : \A q \in DeckProgress' :
                 /\ q.srsNewOrder = Max2(p.srsNewOrder, q.linearOrder)
                 /\ q.linearOrder > p.linearOrder => hist'.gradedOrder < q.srsNewOrder]_vars
    /\ [][hist'.op \in {"advance", "rate", "toggle", "pick", "tick"} =>
             \A q \in DeckProgress' :
                 /\ \A p \in DeckProgress : q.srsNewOrder >= p.srsNewOrder
                 /\ \A c \in srsRow' : \A x \in row' :
                        GetSRS(srs, c.datasetId, c.deckId, c.sentenceId) = {}
                            => x.order >= q.srsNewOrder]_vars

\* An advance forward on a deck that has a card in review: the pointer for new
\* cards has followed linearOrder past the sentence left.
C24_AdvancedPastReviewed ==
    /\ hist.op = "advance" /\ hist.picked
    /\ \E p \in DeckProgress :
          /\ p.linearOrder > 0 /\ p.srsNewOrder = p.linearOrder
          /\ hist.gradedOrder = p.linearOrder - 1
          /\ \E c \in srs : c.datasetId = datasetId /\ c.deckId = deckId

\* The SRS rows the step's own pickCurrent seeded.
SeededByStep ==
    {c \in srsRow' : c.lastReviewedAt = 0
                        /\ GetSRS(srs, c.datasetId, c.deckId, c.sentenceId) = {}}

\* C25: a pickCurrent in SRS mode that finds rows of the deck with
\* dueAt <= now presents one of them, with the smallest dueAt of all, together
\* with its sentence, and seeds no new card.
C25_DueCardFirst ==
    [][(hist'.picked /\ Selected' /\ (\A p \in DeckProgress' : p.mode = "srs")) =>
          LET due == DueRows(DB', datasetId', deckId', now') \ SeededByStep
          IN due # {} =>
                /\ srsRow' # {} /\ srsRow' \subseteq due
                /\ \A c \in srsRow' : \A q \in due : c.dueAt <= q.dueAt
                /\ \A c \in srsRow' : row' = {x \in sentences' : x.id = c.sentenceId}
                /\ SeededByStep = {}]_vars

\* pickCurrent has presented the earlier of two due cards.
C25_EarlierOfTwoDue ==
    /\ hist.picked /\ Selected
    /\ \E p \in DeckProgress : p.mode = "srs"
    /\ \E c \in srsRow : \E q \in DueRows(DB, datasetId, deckId, now) : c.dueAt < q.dueAt

\* C26: a pickCurrent in SRS mode that finds no due row presents the first
\* sentence by order, at or after srsNewOrder, that has no SRS row (none when
\* there is no such sentence), and never a sentence whose SRS row is not yet
\* due.
C26_NewCardSkipsReviewed ==
    [][(hist'.picked /\ Selected' /\ (\A p \in DeckProgress' : p.mode = "srs")) =>
          LET before == srs' \ SeededByStep
              due == DueRows(DB', datasetId', deckId', now') \ SeededByStep
              unseen == {x \in SentencesOf(sentences', datasetId', deckId') :
                            /\ \A p \in DeckProgress' : x.order >= p.srsNewOrder
                            /\ GetSRS(before, datasetId', deckId', x.id) = {}}
          IN due = {} =>
                /\ row' = (IF unseen = {} THEN {} ELSE {FirstByOrder(unseen)})
                /\ srsRow' \subseteq SeededByStep]_vars

\* C27: from the ease 2.2 of a seeded card, after any sequence of grades the
\* ease of the card, and of every stored SRS row, is within [1.3, 2.8].
C27_EaseBounded ==
    /\ EaseMin <= card.ease /\ card.ease <= EaseMax
    /\ \A q \in srs : EaseMin <= q.ease /\ q.ease <= EaseMax

\* A card at ease 2.8 graded "easy": the ceiling has held the ease back.
C27_EasyAtCeiling ==
    /\ hist.op = "grade" /\ hist.rating = "easy"
    /\ hist.before.ease = EaseMax /\ card.ease = EaseMax

\* C28: grading "good" keeps the ease, adds one to reps, and gives the
\* interval 1 to a card with reps = 0, 3 to a card with reps = 1, and
\* max(1, round(prevInterval * ease * 1.8)) to every other card.
C28_GoodSchedule ==
    (hist.op = "grade" /\ hist.rating = "good") =>
        /\ card.ease = hist.before.ease
        /\ card.reps = hist.before.reps + 1
        /\ card.intervalDays =
              (IF hist.before.reps = 0 THEN 1
               ELSE IF hist.before.reps = 1 THEN 3
               ELSE Max2(1, RoundDiv(hist.before.intervalDays * hist.before.ease * 18, 1000)))

\* The third "good" of a card: from the interval 3 at ease 2.2 to 12 days.
C28_ThirdGood ==
    /\ hist.op = "grade" /\ hist.rating = "good"
    /\ hist.before = [reps |-> 2, intervalDays |-> 3, ease |-> EaseInit]
    /\ card = [reps |-> 3, intervalDays |-> 12, ease |-> EaseInit]

\* ------------------------------------------- grading an imported deck
\* SpecGrade: a language with one deck imported from a file of one or two
\* rows, some with a token-count cell (a count other than the tokenizer's, or
\* "Infinity"); the deck is reviewed as days pass.
CellTokens == 7

GradeFiles ==
    {f \in SeqsUpTo([id : {{}}, tt : TokVals, raw : {{}, {CellTokens}, {TokInf}},
                     blank : {FALSE}], 2) :
        Len(f) > 0}

InitGrade ==
    \E f \in GradeFiles :
        LET c == createDataset(EmptyDB, Gen0)
            dk == (CHOOSE k \in c.db.decks : TRUE).id
            i == importRowsInto(c.db, c.id, dk, f, "replace", c.gen.imp, c.gen.s)
            r == RefreshAndPick(i.db, [EmptyUI EXCEPT !.datasetId = c.id, !.deckId = dk], 1)
        IN /\ SetDBInit(r.db)
           /\ SetUIInit(r.ui)
           /\ now = 1
           /\ gen = [c.gen EXCEPT !.s = i.gen, !.imp = @ + 1]
           /\ card = Card0
           /\ auto = Auto0
           /\ txn = {}
           /\ hist = H0

NextGrade ==
    \/ ToggleMode
    \/ BumpLinear({1}, {TRUE}, MaxFaultReps, 0)
    \/ Rate(Ratings, MaxFaultReps)
    \/ PickCurrent
    \/ Tick

SpecGrade == InitGrade /\ [][NextGrade]_vars

\* The token count a grading is to add for a sentence stored as s0 and, once
\* graded, as s1: the stored count, or the recomputed one when the stored
\* count was missing, zero or not finite.
TokenCountOf(s0, s1) ==
    IF s0.tokenCount \in {TokNull, 0, TokInf} THEN s1.tokenCount ELSE s0.tokenCount

\* C29: every grading, whatever the grade and whether the card is new or due,
\* adds 1 to the deck's lifetimeReps and the graded sentence's token count to
\* its lifetimeTokens, and leaves the card's row with dueAt = the time of
\* grading + intervalDays days.
C29_GradeCounts ==
    [][hist'.op = "rate" =>
          \A x \in row :
              /\ \A p \in DeckProgress : \A q \in DeckProgress' :
                    /\ q.lifetimeReps = p.lifetimeReps + 1
                    /\ \A s0 \in sentences : \A s1 \in sentences' :
                          s0.id = x.id /\ s1.id = x.id =>
                              q.lifetimeTokens = p.lifetimeTokens + TokenCountOf(s0, s1)
              /\ DeckProgress # {} /\ DeckProgress' # {}
              /\ \E s \in sentences' : s.id = x.id
              /\ \E c \in GetSRS(srs', datasetId, deckId, x.id) :
                    /\ c.dueAt = now + c.intervalDays
                    /\ c.lastReviewedAt = now
                    /\ \A b \in srsRow :
                          c.intervalDays =
                              scheduleSRS([reps |-> b.reps, intervalDays |-> b.intervalDays,
                                           ease |-> b.ease], hist'.rating).intervalDays]_vars

\* ------------------------------------------- the rows an import admits
\* SpecRows: files of up to MaxFileRows rows, blank or not, with or without
\* an id cell, are imported into the paths of the first language, and imports
\* are undone.
RowFiles ==
    SeqsUpTo([id : {{}} \cup {{x} : x \in ExtIds}, tt : TokVals, raw : {{}}, blank : BOOLEAN],
             MaxFileRows)

NextRows ==
    \/ LoadAll
    \/ CreateDeck
    \/ SelectDeck
    \/ ImportFile(RowFiles)
    \/ DeleteImport

SpecRows == Init /\ [][NextRows]_vars

\* C30: the count an import returns is the number of rows of the file with a
\* source or a target text, the rowCount of its batch record, and the number
\* of sentences stored with the batch's importId; these sentences are in the
\* path imported into, at exactly the orders startOrder .. endOrder, and in
\* the order of their rows.
C30_ImportCount ==
    hist.op = "import" =>
        LET stored == {s \in sentences : s.importId = hist.imp}
        IN /\ hist.count = hist.admitted
           /\ \E b \in imports :
                 /\ b.id = hist.imp
                 /\ b.rowCount = hist.count
                 /\ {s.order : s \in stored} = b.startOrder..b.endOrder
           /\ Cardinality(stored) = hist.count
           /\ \A x \in stored : x.datasetId = datasetId /\ x.deckId = deckId
           /\ \A x \in stored : \A y \in stored :
                 (x.id > NumExtIds /\ y.id > NumExtIds /\ x.id < y.id) => x.order < y.order

\* ------------------------------------------- the token-count column
\* SpecCells: files whose rows have no id cell and a token-count cell that is
\* empty, "0", a count other than the tokenizer's, or a negative number, are
\* imported into the default path, and imports are undone.
NegCell == 0 - 3

CellFiles ==
    SeqsUpTo([id : {{}}, tt : TokVals, raw : {{}, {0}, {CellTokens}, {NegCell}},
              blank : {FALSE}], MaxFileRows)

NextCells ==
    \/ LoadAll
    \/ ImportFile(CellFiles)
    \/ DeleteImport

SpecCells == Init /\ [][NextCells]_vars

\* C31: the token count stored for an imported row is the value of its
\* token-count cell when the cell is filled and not negative, and the
\* tokenizer's count of the row's text when the cell is empty or negative.
C31_StoredTokenCount ==
    hist.op = "import" =>
        \A b \in imports : \A i \in 1..Len(hist.cells) : \A s \in sentences :
            (b.id = hist.imp /\ s.importId = hist.imp /\ s.order = b.startOrder + i - 1) =>
                s.tokenCount = IF hist.cells[i] = {} \/ (\A n \in hist.cells[i] : n < 0)
                               THEN s.tt
                               ELSE CHOOSE n \in hist.cells[i] : TRUE

\* C32: a stored token count that is positive and finite is never
\* overwritten: linear advance and grading (and the mode switches, picks and
\* passing days between them) leave it as it is; only a missing, zero or
\* non-finite count is recomputed.
C32_FiniteCountKept ==
    [][\A s0 \in sentences : \A s1 \in sentences' :
          (s1.id = s0.id /\ s0.tokenCount \notin {TokNull, 0, TokInf}) =>
              s1.tokenCount = s0.tokenCount]_vars

\* ------------------------------------------- the pointer a pick corrects
\* SpecPick: the app is opened on a store the upgrade has migrated from
\* version 1 (its pointers are the version-1 indexes); languages are
\* selected, the mode is switched, the path is read and pickCurrent re-runs.
InitPick ==
    \E d \in LegacyStores :
        /\ SetDBInit(upgrade(d))
        /\ SetUIInit(EmptyUI)
        /\ now = 1
        /\ gen = [Gen0 EXCEPT !.s = MaxLegacy + 1, !.ds = 3]
        /\ card = Card0
        /\ auto = Auto0
        /\ txn = {}
        /\ hist = H0

NextPick ==
    \/ LoadAll
    \/ SelectLanguage
    \/ ToggleMode
    \/ PickCurrent

SpecPick == InitPick /\ [][NextPick]_vars

MaxCalls == 2

\* A key press: `void bumpLinear(1, true)`.
AdvanceIssue ==
    /\ Selected /\ pathProg # {} /\ ShownMode = {"linear"}
    /\ Cardinality(txn) < MaxCalls
    /\ txn' = txn \cup {[status |-> "issued", n |-> Cardinality(txn) + 1, closure |-> UI,
                         begin |-> IF txn = {} THEN DB ELSE (CHOOSE x \in txn : TRUE).begin,
                         overlapped |-> \E x \in txn : x.status = "issued"]}
    /\ hist' = Did("advanceIssued", FALSE)
    /\ UNCHANGED <<storeVars, uiVars, now, gen, card, auto>>

\* The call runs to its end on the store as it is now, with the pathProg and
\* row it was bound to; its setPathProg, setRow and setSrsRow reach the state.
AdvanceComplete ==
    \E c \in txn :
        /\ c.status = "issued"
        /\ \E r \in {bumpLinear(DB, c.closure, 1, TRUE, now)} :
              /\ SetDB(r.db)
              /\ SetUI([UI EXCEPT
                          !.pathProg = IF r.ui.pathProg # c.closure.pathProg
                                       THEN r.ui.pathProg ELSE @,
                          !.row = IF r.ui.row # c.closure.row THEN r.ui.row ELSE @,
                          !.srsRow = IF r.ui.pathProg # c.closure.pathProg THEN {} ELSE @])
              /\ txn' = (txn \ {c}) \cup {[c EXCEPT !.status = "completed"]}
              /\ hist' = Did("advance", r.ui.pathProg # c.closure.pathProg)
              /\ UNCHANGED <<now, gen, card, auto>>

\* Every call issued has completed; the next key press starts afresh.
AdvanceSettle ==
    /\ txn # {}
    /\ \A c \in txn : c.status = "completed"
    /\ txn' = {}
    /\ hist' = Did("advanceSettled", FALSE)
    /\ UNCHANGED <<storeVars, uiVars, now, gen, card, auto>>

NextAdvance ==
    \/ AdvanceIssue
    \/ AdvanceComplete
    \/ AdvanceSettle

SpecAdvance == InitLinear /\ [][NextAdvance]_vars

\* The path's progress after two calls of bumpLinear(+1, true) run one after
\* the other from the store and the render the first call was issued in.
TwoAdvancesInTurn(c) ==
    LET r1 == bumpLinear(c.begin, c.closure, 1, TRUE, now)
        r2 == bumpLinear(r1.db, r1.ui, 1, TRUE, now)
    IN GetPathProgress(r2.db.pathProgress, c.closure.datasetId, c.closure.deckId)

\* C34: when a second advance(+1, true) is issued before the first has
\* completed, the PathProgress left once both have completed is the one two
\* advances run one after the other leave: pointer, lifetimeReps and
\* lifetimeTokens reflect both.
C34_AdvancesNotLost ==
    (/\ Cardinality(txn) = 2
     /\ \A c \in txn : c.status = "completed"
     /\ \E c \in txn : c.overlapped) =>
        \A c \in txn : c.n = 1 => DeckProgress = TwoAdvancesInTurn(c)

\* ------------------------------------------- two start-up loads at once
\* SpecSeed: the page is opened and loadAll runs once, or twice at the same
\* time; each call goes from one await to the next, the calls interleave.
\* Between visits the reader clears the path or deletes its batch.
LoadSteps == <<"first", "dataset", "deck", "count", "seed", "select">>

\* The page is opened: the mount effect calls loadAll (k times).
StartUp ==
    /\ txn = {}
    /\ gen.imp + 1 <= MaxImports
    /\ \E k \in 1..2 :
          txn' = {[status |-> "loading", n |-> i, step |-> 1, ds |-> NoSel, dk |-> NoSel,
                   existing |-> FALSE] : i \in 1..k}
    /\ SetUI([UI EXCEPT !.pathProg = {}, !.row = {}, !.srsRow = {}])
    /\ hist' = Did("startUp", FALSE)
    /\ UNCHANGED <<storeVars, now, gen, card, auto>>

\* A call of loadAll goes on to its next await.
LoadStep ==
    \E c \in txn :
        /\ c.status = "loading"
        /\ LET at == LoadSteps[c.step]
               first == IF datasets = {} THEN NoSel
                        ELSE CHOOSE x \in datasets : \A y \in datasets : x <= y
               made == IF at = "dataset" /\ c.ds = NoSel THEN createDataset(DB, gen)
                       ELSE [db |-> DB, gen |-> gen, id |-> c.ds]
               deck == IF at = "deck" THEN ensureDefaultDeck(DB, gen, c.ds)
                       ELSE [db |-> DB, gen |-> gen, id |-> c.dk]
               seeded == IF at = "seed" /\ ~c.existing THEN seedSample(DB, gen, c.ds, c.dk)
                         ELSE [db |-> DB, gen |-> gen]
               d == CASE at = "dataset" -> made.db
                      [] at = "deck" -> deck.db
                      [] at = "seed" -> seeded.db
                      [] OTHER -> DB
               g == CASE at = "dataset" -> made.gen
                      [] at = "deck" -> deck.gen
                      [] at = "seed" -> seeded.gen
                      [] OTHER -> gen
               r == IF at = "select"
                    THEN RefreshAndPick(d, loadAllSelect(d, UI, c.ds, c.dk), now)
                    ELSE Res(d, UI)
               c2 == [c EXCEPT
                        !.ds = IF at = "first" THEN first ELSE made.id,
                        !.dk = deck.id,
                        !.existing = IF at = "count"
                                     THEN SentencesOf(sentences, c.ds, c.dk) # {} ELSE @,
                        !.step = IF at = "select" THEN @ ELSE @ + 1,
                        !.status = IF at = "select" THEN "loaded" ELSE @]
           IN /\ SetDB(r.db)
              /\ SetUI(r.ui)
              /\ gen' = g
              /\ txn' = (txn \ {c}) \cup {c2}
              /\ hist' = [Did("load", at = "select") EXCEPT !.k = c.n]
              /\ UNCHANGED <<now, card, auto>>

NextSeed ==
    \/ StartUp
    \/ LoadStep
    \/ (ClearPath /\ \A c \in txn : c.status = "loaded")
    \/ (DeleteImport /\ \A c \in txn : c.status = "loaded")

SpecSeed == Init /\ [][NextSeed]_vars

\* C35: however two start-up loads interleave, a path holds at most one
\* built-in sample batch and no two sentences with the same order, and an
\* empty store gets one language.
C35_SeededOnce ==
    /\ \A k \in decks :
          /\ Cardinality({b \in imports : b.datasetId = k.datasetId /\ b.deckId = k.id}) <= 1
          /\ \A x \in SentencesOf(sentences, k.datasetId, k.id) :
             \A y \in SentencesOf(sentences, k.datasetId, k.id) :
                 x.order = y.order => x = y
    /\ Cardinality(datasets) <= 1

\* ------------------------------------------- auto-run
\* SpecAuto: a deck just opened in linear mode; the reader goes to the
\* practice view and back, switches auto-run on and off, pauses it, presses
\* ArrowRight and switches the mode, while iterations of the auto-run effect
\* wait and advance.  An iteration is live while autoRunToken.current is its
\* token: the effect's cleanup and its next run each increment the ref.
AutoPhases == 3

AutoDeps(a, u) ==
    <<a.autoRun, a.autoPaused, a.view, {q.mode : q \in u.pathProg}, {x.id : x \in u.row}>>

\* The effect on [autoRun, autoPaused, view, pathProg?.mode, row?.id, ...]:
\* the cleanup of its last run, then a new iteration bound to this render.
autoRunEffect(a, u) ==
    LET runs == /\ a.autoRun /\ ~a.autoPaused /\ a.view = "practice"
                /\ \E q \in u.pathProg : q.mode = "linear"
                /\ u.row # {}
    IN [a EXCEPT !.iter = {[it EXCEPT !.live = FALSE] : it \in @}
                          \cup (IF runs THEN {[live |-> TRUE, phase |-> 1, closure |-> u]}
                                ELSE {})]

\* The render after a handler's state updates, and the effect when one of
\* its dependencies has changed.
Rendered(a0, u0, a1, u1) ==
    IF AutoDeps(a0, u0) = AutoDeps(a1, u1) THEN a1 ELSE autoRunEffect(a1, u1)

AutoFiles ==
    {f \in SeqsUpTo([id : {{}}, tt : TokVals, raw : {{}}, blank : {FALSE}], MaxFileRows) :
        Len(f) > 0}

InitAuto ==
    \E f \in AutoFiles, on \in BOOLEAN :
        LET c == createDataset(EmptyDB, Gen0)
            dk == (CHOOSE k \in c.db.decks : TRUE).id
            i == importRowsInto(c.db, c.id, dk, f, "replace", c.gen.imp, c.gen.s)
            r == RefreshAndPick(i.db, [EmptyUI EXCEPT !.datasetId = c.id, !.deckId = dk], 1)
        IN /\ SetDBInit(r.db)
           /\ SetUIInit(r.ui)
           /\ now = 1
           /\ gen = [c.gen EXCEPT !.s = i.gen, !.imp = @ + 1]
           /\ card = Card0
           /\ auto = [Auto0 EXCEPT !.autoRun = on]
           /\ txn = {}
           /\ hist = H0

\* "Practice" / "Home" / Escape: setView.
SetView ==
    /\ \E v \in {"home", "practice"} \ {auto.view} :
          auto' = Rendered(auto, UI, [auto EXCEPT !.view = v], UI)
    /\ hist' = Did("view", FALSE)
    /\ UNCHANGED <<storeVars, uiVars, now, gen, card, txn>>

\* The Auto button and the key a: setAutoRun(!v), setAutoPaused(false).
ToggleAutoRun ==
    /\ auto.view = "practice" /\ ShownMode = {"linear"}
    /\ auto' = Rendered(auto, UI, [auto EXCEPT !.autoRun = ~@, !.autoPaused = FALSE], UI)
    /\ hist' = Did("autoRun", FALSE)
    /\ UNCHANGED <<storeVars, uiVars, now, gen, card, txn>>

\* Space while auto-run is on: setAutoPaused(!v).
PauseResume ==
    /\ auto.view = "practice" /\ ShownMode = {"linear"} /\ auto.autoRun
    /\ auto' = Rendered(auto, UI, [auto EXCEPT !.autoPaused = ~@], UI)
    /\ hist' = Did("pause", FALSE)
    /\ UNCHANGED <<storeVars, uiVars, now, gen, card, txn>>

\* ArrowRight: setAutoPaused(true) when auto-run is on, then bumpLinear(1, true).
KeyAdvance ==
    /\ auto.view = "practice" /\ ShownMode = {"linear"} /\ Selected
    /\ \E r \in {bumpLinear(DB, UI, 1, TRUE, now)} :
          /\ SetDB(r.db)
          /\ SetUI(r.ui)
          /\ auto' = Rendered(auto, UI,
                              [auto EXCEPT !.autoPaused = IF auto.autoRun THEN TRUE ELSE @],
                              r.ui)
          /\ hist' = Did("advance", r.ui.pathProg # pathProg)
    /\ UNCHANGED <<now, gen, card, txn>>

\* toggleMode up to its await: the row with the other mode is put.
ToggleModeBegin ==
    /\ Selected /\ pathProg # {} /\ txn = {}
    /\ auto.view = "practice"
    /\ \E pg \in pathProg : \E mode \in Modes \ {pg.mode} :
          LET next == [pg EXCEPT !.mode = mode]
          IN /\ SetDB([DB EXCEPT !.pathProgress = PutPathProgress(@, next)])
             /\ txn' = {[status |-> "toggling", next |-> next]}
             /\ hist' = [Did("toggleBegin", FALSE) EXCEPT !.mode = mode]
    /\ UNCHANGED <<uiVars, now, gen, card, auto>>

\* toggleMode after its await: setPathProg(next), setAutoRun(false) for srs;
\* then the effects on the mode: pickCurrent, and the auto-run effect.
ToggleModeFinish ==
    \E t \in txn :
        /\ t.status = "toggling"
        /\ \E u1 \in {[UI EXCEPT !.pathProg = {t.next}]} :
           \E r \in {EffectOnProgress(DB, UI, u1, now)} :
              /\ SetDB(r.db)
              /\ SetUI(r.ui)
              /\ auto' = Rendered(auto, UI,
                                  IF t.next.mode = "srs"
                                  THEN [auto EXCEPT !.autoRun = FALSE, !.autoPaused = FALSE]
                                  ELSE auto,
                                  r.ui)
              /\ txn' = {}
              /\ hist' = [Did("toggle", TRUE) EXCEPT !.mode = t.next.mode]
              /\ UNCHANGED <<now, gen, card>>

\* An iteration resumes after its start delay, the speech, the delay after
\* the speech: it returns when its token is no longer current, goes on to
\* its next wait, or, after the last, calls bumpLinear(1, true).
AutoStep ==
    \E it \in auto.iter :
        IF ~it.live
        THEN /\ auto' = [auto EXCEPT !.iter = @ \ {it}]
             /\ hist' = Did("autoReturn", FALSE)
             /\ UNCHANGED <<storeVars, uiVars, now, gen, card, txn>>
        ELSE IF it.phase < AutoPhases
        THEN /\ auto' = [auto EXCEPT !.iter = (@ \ {it}) \cup {[it EXCEPT !.phase = @ + 1]}]
             /\ hist' = Did("autoWait", FALSE)
             /\ UNCHANGED <<storeVars, uiVars, now, gen, card, txn>>
        ELSE \E r \in {bumpLinear(DB, it.closure, 1, TRUE, now)} :
             \E u1 \in {[UI EXCEPT
                           !.pathProg = IF r.ui.pathProg # it.closure.pathProg
                                        THEN r.ui.pathProg ELSE @,
                           !.row = IF r.ui.row # it.closure.row THEN r.ui.row ELSE @,
                           !.srsRow = IF r.ui.pathProg # it.closure.pathProg THEN {} ELSE @]} :
                /\ SetDB(r.db)
                /\ SetUI(u1)
                /\ auto' = Rendered(auto, UI, [auto EXCEPT !.iter = @ \ {it}], u1)
                /\ hist' = Did("autoAdvance", r.ui.pathProg # it.closure.pathProg)
                /\ UNCHANGED <<now, gen, card, txn>>

NextAuto ==
    \/ SetView
    \/ ToggleAutoRun
    \/ PauseResume
    \/ KeyAdvance
    \/ ToggleModeBegin
    \/ ToggleModeFinish
    \/ AutoStep

SpecAuto == InitAuto /\ [][NextAuto]_vars

\* C36: an iteration of auto-run calls bumpLinear only while auto-run is on
\* and not paused, the practice view is shown, the path is in linear mode and
\* the sentence shown is the one the iteration was started for; no two
\* iterations are live at once.
C36_CancelledNeverAdvances ==
    [][/\ Cardinality({it \in auto.iter : it.live}) <= 1
       /\ hist'.op = "autoAdvance" =>
             /\ auto.autoRun /\ ~auto.autoPaused /\ auto.view = "practice"
             /\ ShownMode = {"linear"}
             /\ \A p \in DeckProgress : p.mode = "linear"
             /\ \E it \in auto.iter :
                   it.live /\ {x.id : x \in it.closure.row} = {x.id : x \in row}]_vars

\* C37: the sentence pickCurrent presents is one of the selected language
\* and path, in linear and in SRS mode, whatever imports (with or without id
\* cells), batch deletions, language deletions and gradings came before; and
\* in SRS mode a card is presented whenever a due SRS row of the path has its
\* sentence in the path.
C37_CurrentCardInSelectedDeck ==
    hist.picked =>
        /\ \A x \in row : x.datasetId = datasetId /\ x.deckId = deckId
        /\ (/\ ShownMode = {"srs"}
            /\ \E q \in DueRows(DB, datasetId, deckId, now) :
               \E s \in DeckRows : s.id = q.sentenceId) => row # {}

\* ------------------------------------------- the lifetime counters
\* SpecCounters: the built-in deck is read and reviewed; files are imported
\* (append or replace), batches deleted, the path cleared, the mode switched.
NextCounters ==
    \/ LoadAll
    \/ ImportFile(AutoFiles)
    \/ DeleteImport
    \/ ClearPath
    \/ BumpLinear({1}, {TRUE}, MaxFaultReps, 0)
    \/ Rate({"good"}, MaxFaultReps)
    \/ ToggleMode
    \/ PickCurrent

SpecCounters == Init /\ [][NextCounters]_vars

\* C38: an import (append or replace), a batch deletion, "Clear this path", a
\* mode switch and a re-run of pickCurrent leave lifetimeReps and
\* lifetimeTokens of every path as they were, and remove no PathProgress row.
C38_CountersKept ==
    [][hist'.op \in {"import", "delete", "clear", "toggle", "pick"} =>
          \A p \in pathProgress :
              \E q \in pathProgress' :
                  /\ q.datasetId = p.datasetId /\ q.deckId = p.deckId
                  /\ q.lifetimeReps = p.lifetimeReps
                  /\ q.lifetimeTokens = p.lifetimeTokens]_vars

\* A path that was read has been cleared, or replaced by an import: its
\* pointers are back at 0, its counters are not.
C38_ClearedAfterReading ==
    /\ hist.op \in {"clear", "import"}
    /\ hist.op = "import" => hist.mode = "replace"
    /\ \E p \in DeckProgress :
          p.lifetimeReps > 0 /\ p.lifetimeTokens > 0 /\ p.linearOrder = 0

\* C39: every state a card reaches by grades from the seeded state (reps 0,
\* interval 0) has interval 0 when reps = 0, interval 1 when reps = 1, and an
\* interval of 3 days or more when reps >= 2; so has every stored SRS row.
C39_IntervalByReps ==
    \A c \in {card} \cup srs :
        /\ c.reps = 0 => c.intervalDays = 0
        /\ c.reps = 1 => c.intervalDays = 1
        /\ c.reps >= 2 => c.intervalDays >= 3

\* A card at the ease floor with reps 2 and interval 3 was graded "hard": its
\* interval is round(3 * 1.3 * 1.0) = 4 days.
C39_HardAtFloor ==
    /\ hist.op = "grade" /\ hist.rating = "hard"
    /\ hist.before = [reps |-> 2, intervalDays |-> 3, ease |-> EaseMin]
    /\ card = [reps |-> 3, intervalDays |-> 4, ease |-> EaseMin]

\* C40: an import into the selected path, append or replace, with or without
\* id cells, leaves the sentences, SRS rows, batch records and PathProgress
\* of every other (language, path) as they were.
C40_ImportFrame ==
    [][hist'.op = "import" =>
          LET other(x) == ~(x.datasetId = datasetId /\ x.deckId = deckId)
          IN /\ {s \in sentences : other(s)} = {s \in sentences' : other(s)}
             /\ {q \in srs : other(q)} = {q \in srs' : other(q)}
             /\ {b \in imports : other(b)} = {b \in imports' : other(b)}
             /\ {p \in pathProgress : other(p)} = {p \in pathProgress' : other(p)}]_vars

====
